---- MODULE Spec2Model ----
(***************************************************************************)
(* A model of the dcoin node: block store, tip ("lh"), UTXO set, mempool,  *)
(* orphan pool, the chain manager's reorg with snapshot/restore, the miner *)
(* and the transaction admission paths (REST and P2P).                     *)
(*                                                                         *)
(* Hashes and ids are names; a transaction is a record that carries its id *)
(* field, a block is a record that carries its hash field together with    *)
(* the hash recomputed from its fields (computed).  A signature check is   *)
(* the boolean sig_ok of the input.                                        *)
(***************************************************************************)
EXTENDS Integers, Sequences, FiniteSets, TLC

\* ------------------------------------------------------------------ data

ZeroHash == "0"          \* [0u8; 32]
NoHash == "none"         \* the key "lh" is absent
U32_MAX == 2147483647    \* stands for u32::MAX, never a valid output index
COINBASE_REWARD == 100
MAX_ORPHAN_CHAIN_AGE == 10

\* hash_pub_key: RIPEMD-160(SHA-256(pub_key)), a name for each key
hash_pub_key(pk) ==
  CASE pk = "pkA" -> "A"
    [] pk = "pkB" -> "B"
    [] pk = "pkC" -> "C"
    [] OTHER -> "?"

\* the hash of a mined candidate at the last nonce the search tried when no
\* nonce solved it, and the hash recomputed after the search
LastTriedNames == <<"M1x", "M2x", "M3x", "M4x">>
RehashNames == <<"M1y", "M2y", "M3y", "M4y">>

\* PoW: hash < target holds of every hash used here but these
AboveTarget == {"Z1"} \cup {LastTriedNames[i] : i \in 1..Len(LastTriedNames)}
below_target(h) == h \notin AboveTarget

TxIn(p, o, pk, ok) == [prev_tx_id |-> p, out |-> o, pub_key |-> pk, sig_ok |-> ok]
TxOut(v, h) == [value |-> v, pub_key_hash |-> h]
MkTx(i, ins, outs) == [id |-> i, inputs |-> ins, outputs |-> outs]

\* coinbase_tx: one dummy input (zero id, u32::MAX), one output of the reward
coinbase_tx(i, pkh) ==
  MkTx(i, <<TxIn(ZeroHash, U32_MAX, "pkE", TRUE)>>, <<TxOut(COINBASE_REWARD, pkh)>>)

\* a block: its fields, the hash recomputed from them (computed) and the key
\* the block store holds it under (key): block.hash for every block but the
\* one Block::mine stores under the hash it recomputes after the search
MkBlock(h, p, ht, txs, c) ==
  [hash |-> h, prev_hash |-> p, height |-> ht, txs |-> txs, computed |-> c, key |-> h]

\* Tx::is_coinbase
is_coinbase(tx) ==
  /\ Len(tx.inputs) = 1
  /\ tx.inputs[1].prev_tx_id = ZeroHash
  /\ tx.inputs[1].out = U32_MAX

\* Block::is_genesis
is_genesis(b) == b.prev_hash = ZeroHash /\ b.height = 0

\* ------------------------------------------------- the transactions used

cbG == coinbase_tx("cbG", "A")
cbA1 == coinbase_tx("cbA1", "A")
cbA2 == coinbase_tx("cbA2", "A")
cbB1 == coinbase_tx("cbB1", "C")
cbB2 == coinbase_tx("cbB2", "C")
cbB3 == coinbase_tx("cbB3", "C")
cbX1 == coinbase_tx("cbX1", "B")
cbY1 == coinbase_tx("cbY1", "B")

\* A pays 30 to B out of the genesis coinbase, 70 change
t1 == MkTx("t1", <<TxIn("cbG", 0, "pkA", TRUE)>>, <<TxOut(30, "B"), TxOut(70, "A")>>)
\* A spends the same output again, paying C
t2 == MkTx("t2", <<TxIn("cbG", 0, "pkA", TRUE)>>, <<TxOut(100, "C")>>)
\* A spends the coinbase of A1
t3 == MkTx("t3", <<TxIn("cbA1", 0, "pkA", TRUE)>>, <<TxOut(100, "B")>>)
\* C spends the coinbase of B1, of B2
t4 == MkTx("t4", <<TxIn("cbB1", 0, "pkC", TRUE)>>, <<TxOut(100, "B")>>)
t5 == MkTx("t5", <<TxIn("cbB2", 0, "pkC", TRUE)>>, <<TxOut(100, "B")>>)
\* B tries to spend A's 70 change with its own key (wrong key)
t6 == MkTx("t6", <<TxIn("t1", 1, "pkB", TRUE)>>, <<TxOut(70, "B")>>)

\* ------------------------------------------------------ the blocks used

Genesis == MkBlock("G", ZeroHash, 0, <<cbG>>, "G")
A1 == MkBlock("A1", "G", 1, <<cbA1, t1>>, "A1")
A2 == MkBlock("A2", "A1", 2, <<cbA2, t3>>, "A2")
B1 == MkBlock("B1", "G", 1, <<cbB1, t2>>, "B1")
B2 == MkBlock("B2", "B1", 2, <<cbB2, t4>>, "B2")
B3 == MkBlock("B3", "B2", 3, <<cbB3, t5>>, "B3")
\* a coinbase-only block on G
X1 == MkBlock("X1", "G", 1, <<cbX1>>, "X1")
\* a coinbase-only block whose parent nobody has
Y1 == MkBlock("Y1", "U9", 2, <<cbY1>>, "Y1")
\* a block whose hash is not below the target
Z1 == MkBlock("Z1", "G", 1, <<cbX1>>, "Z1")

PeerBlocks == {A1, A2, B1, B2, B3, Y1}
PeerTxs == {t1, t2}
RestTxs == {t1, t2}

\* what the tasks are given when their steps interleave
ConcBlocks == {A1}
ConcPeerTxs == {t2}
ConcRestTxs == {t1, t6}

\* ------------------------------------------------------------- the state

VARIABLES
  blocks,      \* column family "block": the stored blocks
  lh,          \* key "lh": the tip hash, or NoHash
  utxo,        \* column family "utxo": entries [tx_id, out, value, pub_key_hash]
  mempool,     \* key "mempool": the admitted transactions
  orphans,     \* key "orphan": the orphan pool
  is_locked,   \* ChainManager.is_locked
  MINING_LOCK, \* miner::MINING_LOCK
  p2p,         \* the P2P task: where it is in its handler, and the handler's locals
  rest,        \* a REST handler for POST /tx/send: where it is, and its locals
  miner,       \* the mining task: where it is, and its candidate block
  mined,       \* how many blocks the miner has built (names the next one)
  last,        \* history: what the last completed handler did
  scen,        \* history: progress of the reorg scenario G,A1,A2 + B1,B2,B3
  net          \* the P2P event loop: whether it runs, and the messages in flight

vars == <<blocks, lh, utxo, mempool, orphans, is_locked, MINING_LOCK, p2p, rest, miner,
          mined, last, scen, net>>

\* ------------------------------------------------------- store handlers

Hashes(bs) == {b.key : b \in bs}

\* db::get_block: the stored block under a hash (a set of at most one)
get_block(bs, h) == {b \in bs : b.key = h}

\* db::put_block / db::put_orphan_block: insert under the block's key
put_block(bs, b) == {x \in bs : x.key # b.key} \cup {b}

\* db::delete_block
delete_block(bs, h) == {x \in bs : x.key # h}

\* db::remove_from_orphan_blocks
remove_from_orphan_blocks(os, hs) == {x \in os : x.key \notin hs}

\* db::get_utxo
get_utxo(u, id, out) == {e \in u : e.tx_id = id /\ e.out = out}

\* db::put_utxo: insert into the bucket of tx_id, replacing the index
put_utxo(u, id, out, txo) ==
  {e \in u : ~(e.tx_id = id /\ e.out = out)}
    \cup {[tx_id |-> id, out |-> out, value |-> txo.value, pub_key_hash |-> txo.pub_key_hash]}

\* db::delete_utxo: remove the index; an empty bucket disappears
delete_utxo(u, id, out) == {e \in u : ~(e.tx_id = id /\ e.out = out)}

\* db::utxo_set_contains_tx
utxo_set_contains_tx(u, id) == \E e \in u : e.tx_id = id

\* db::put_mempool: insert under tx.id
put_mempool(mp, tx) == {x \in mp : x.id # tx.id} \cup {tx}

\* db::remove_txs_from_mempool
remove_txs_from_mempool(mp, ids) == {x \in mp : x.id \notin ids}

\* chain::get_last_block (a set of at most one; empty is the Err case)
get_last_block(bs, tip) == IF tip = NoHash THEN {} ELSE get_block(bs, tip)

\* chain::get_chain_height, with the caller's default of 0 on Err
get_chain_height(bs, tip) ==
  IF get_last_block(bs, tip) = {} THEN 0
  ELSE (CHOOSE b \in get_last_block(bs, tip) : TRUE).height

\* all the orders in which a HashMap may iterate over the elements of S
Perms(S) ==
  {s \in [1..Cardinality(S) -> S] : \A i, j \in 1..Cardinality(S) : s[i] = s[j] => i = j}

Range(s) == {s[i] : i \in 1..Len(s)}

\* ---------------------------------------------------------- verification

\* TxVerify::verify against the UTXO set u
tx_verify(tx, u) ==
  \/ is_coinbase(tx)
  \/ \A k \in 1..Len(tx.inputs) :
       LET input == tx.inputs[k]
           prev == get_utxo(u, input.prev_tx_id, input.out)
       IN /\ prev # {}
          /\ \A e \in prev : hash_pub_key(input.pub_key) = e.pub_key_hash
          /\ input.sig_ok

\* the coinbase and proof-of-work checks shared by verify and verify_orphan
coinbase_and_pow(b) ==
  /\ is_coinbase(b.txs[1])
  /\ b.txs[1].outputs[1].value = COINBASE_REWARD
  /\ below_target(b.computed)
  /\ b.computed = b.hash

\* Block::verify
block_verify(b, u) ==
  /\ Len(b.txs) > 0
  /\ \A k \in 1..Len(b.txs) : tx_verify(b.txs[k], u)
  /\ coinbase_and_pow(b)

\* Block::verify_orphan
verify_orphan(b) ==
  /\ Len(b.txs) > 0
  /\ coinbase_and_pow(b)

\* ------------------------------------------------------ UTXO and mempool

InputKeys(tx) == {<<tx.inputs[k].prev_tx_id, tx.inputs[k].out>> : k \in 1..Len(tx.inputs)}

\* put_utxo for every output of tx / delete_utxo for every output of tx
put_outputs(u, tx) ==
  {e \in u : ~(e.tx_id = tx.id /\ e.out \in 0..(Len(tx.outputs) - 1))}
    \cup {[tx_id |-> tx.id, out |-> k - 1, value |-> tx.outputs[k].value,
           pub_key_hash |-> tx.outputs[k].pub_key_hash] : k \in 1..Len(tx.outputs)}
delete_outputs(u, tx) ==
  {e \in u : ~(e.tx_id = tx.id /\ e.out \in 0..(Len(tx.outputs) - 1))}

\* one iteration of update_utxos: drop the inputs' UTXOs, then add the outputs
update_utxos_tx(u, tx) ==
  put_outputs(IF is_coinbase(tx) THEN u
              ELSE {e \in u : <<e.tx_id, e.out>> \notin InputKeys(tx)}, tx)

RECURSIVE update_utxos_from(_, _, _)
update_utxos_from(u, txs, k) ==
  IF k > Len(txs) THEN u ELSE update_utxos_from(update_utxos_tx(u, txs[k]), txs, k + 1)

\* utxo::update_utxos
update_utxos(u, block) == update_utxos_from(u, block.txs, 1)

\* mempool::mempool_contains_txo
mempool_contains_txo(mp, id, out) == \E tx \in mp : <<id, out>> \in InputKeys(tx)

\* the input_map of update_mempool when the mempool is iterated in order ord:
\* a later transaction overwrites the entry of an earlier one
input_map(ord, key) ==
  LET refs == {i \in 1..Len(ord) : key \in InputKeys(ord[i])}
  IN IF refs = {} THEN {} ELSE {ord[CHOOSE i \in refs : \A j \in refs : j <= i].id}

\* mempool::update_mempool, tx_ids_to_remove: the mempool transactions found
\* through input_map for the inputs of the block's non-coinbase transactions
tx_ids_to_remove(mp, block) ==
  LET keys == UNION {InputKeys(block.txs[k]) :
                       k \in {j \in 1..Len(block.txs) : ~is_coinbase(block.txs[j])}}
  IN {UNION {input_map(ord, key) : key \in keys} : ord \in Perms(mp)}

\* mempool::update_mempool: the possible mempools after evicting what block spends
update_mempool(mp, block) ==
  {remove_txs_from_mempool(mp, ids) : ids \in tx_ids_to_remove(mp, block)}

\* an admission guard that never finds a double spend
no_double_spend_unchecked(mp, tx) == TRUE

\* mempool::add_tx_to_mempool's guard: no input is referenced in the mempool
no_double_spend(mp, tx) ==
  \A k \in 1..Len(tx.inputs) : ~mempool_contains_txo(mp, tx.inputs[k].prev_tx_id, tx.inputs[k].out)

\* chain::get_tx_from_chain: walk from the tip to genesis (empty set is Err)
RECURSIVE find_tx_from(_, _, _)
find_tx_from(bs, h, id) ==
  IF get_block(bs, h) = {} THEN {}
  ELSE LET b == CHOOSE x \in get_block(bs, h) : TRUE
           hit == {k \in 1..Len(b.txs) : b.txs[k].id = id}
       IN IF hit # {} THEN {b.txs[CHOOSE k \in hit : \A j \in hit : k <= j]}
          ELSE IF is_genesis(b) THEN {}
          ELSE find_tx_from(bs, b.prev_hash, id)

get_tx_from_chain(bs, tip, id) == IF tip = NoHash THEN {} ELSE find_tx_from(bs, tip, id)

\* ------------------------------------------------------ chain manager
\* The operators below work on a record st of the chain state
\*   [blocks, lh, utxo, mempool, orphans, is_locked, ret, events]
\* (ret is the handler's result, events the reorg attempts it made), and,
\* inside a reorg, on r = [st, snap, err, panic] with the manager's snapshot.

\* UtxoChange::Added / UtxoChange::Removed
Added(id, out, txo) ==
  [kind |-> "Added", tx_id |-> id, out_idx |-> out, value |-> txo.value,
   pub_key_hash |-> txo.pub_key_hash]
Removed(id, out) ==
  [kind |-> "Removed", tx_id |-> id, out_idx |-> out, value |-> 0, pub_key_hash |-> ""]

\* ChainManager::create_snapshot: the blocks from the tip down to the base
RECURSIVE snapshot_walk(_, _, _, _)
snapshot_walk(bs, curr, base_hash, acc) ==
  IF curr.hash = base_hash THEN [ok |-> TRUE, removed |-> acc]
  ELSE IF get_block(bs, curr.prev_hash) = {} THEN [ok |-> FALSE, removed |-> acc]
  ELSE snapshot_walk(bs, CHOOSE b \in get_block(bs, curr.prev_hash) : TRUE, base_hash,
                     Append(acc, curr))

create_snapshot(st, base_hash) ==
  IF get_last_block(st.blocks, st.lh) = {} THEN {}
  ELSE LET w == snapshot_walk(st.blocks, CHOOSE b \in get_last_block(st.blocks, st.lh) : TRUE,
                              base_hash, <<>>)
       IN IF w.ok
          THEN {[last_hash |-> st.lh, utxo_changes |-> <<>>, removed_blocks |-> w.removed]}
          ELSE {}

\* ChainManager::restore_snapshot
RECURSIVE restore_changes(_, _, _)
restore_changes(u, changes, k) ==
  IF k > Len(changes) THEN u
  ELSE LET c == changes[k]
       IN restore_changes(IF c.kind = "Added" THEN put_utxo(u, c.tx_id, c.out_idx, c)
                          ELSE delete_utxo(u, c.tx_id, c.out_idx),
                          changes, k + 1)

restore_snapshot(st, snap) ==
  [st EXCEPT !.lh = snap.last_hash,
             !.utxo = restore_changes(@, snap.utxo_changes, 1),
             !.blocks = {b \in @ : b.hash \notin Hashes(Range(snap.removed_blocks))}
                          \cup Range(snap.removed_blocks)]

\* rollback_chain_to_block, the loop over the inputs of one transaction
RECURSIVE rb_inputs(_, _, _)
rb_inputs(r, tx, k) ==
  IF r.err \/ k > Len(tx.inputs) THEN r
  ELSE LET input == tx.inputs[k]
           restore(prev_tx) ==
             IF input.out + 1 > Len(prev_tx.outputs)
             THEN [r EXCEPT !.err = TRUE, !.panic = TRUE]
             ELSE rb_inputs(
                    [r EXCEPT !.st.utxo = put_utxo(@, input.prev_tx_id, input.out,
                                                   prev_tx.outputs[input.out + 1]),
                              !.snap.utxo_changes =
                                 Append(@, Added(input.prev_tx_id, input.out,
                                                 prev_tx.outputs[input.out + 1]))],
                    tx, k + 1)
           found(prev) ==
             IF prev = {} THEN [r EXCEPT !.err = TRUE] ELSE restore(CHOOSE x \in prev : TRUE)
       IN found(get_tx_from_chain(r.st.blocks, r.st.lh, input.prev_tx_id))

\* rollback_chain_to_block, one transaction: outputs, inputs, back to the mempool
rollback_tx(r, tx) ==
  LET n == Len(tx.outputs)
      to_mempool(r2) == IF r2.err THEN r2 ELSE [r2 EXCEPT !.st.mempool = put_mempool(@, tx)]
  IN to_mempool(rb_inputs(
       [r EXCEPT !.st.utxo = delete_outputs(@, tx),
                 !.snap.utxo_changes = @ \o [k \in 1..n |-> Removed(tx.id, k - 1)]],
       tx, 1))

RECURSIVE rb_txs(_, _, _)
rb_txs(r, txs, k) ==
  IF r.err \/ k > Len(txs) THEN r ELSE rb_txs(rollback_tx(r, txs[k]), txs, k + 1)

RECURSIVE rb_blocks(_, _, _)
rb_blocks(r, curr, target_hash) ==
  LET previous(r2) ==
        IF get_block(r2.st.blocks, curr.prev_hash) = {} THEN [r2 EXCEPT !.err = TRUE]
        ELSE rb_blocks(r2, CHOOSE b \in get_block(r2.st.blocks, curr.prev_hash) : TRUE,
                       target_hash)
      step(r1) ==
        IF r1.err \/ curr.prev_hash = target_hash THEN r1
        ELSE previous([r1 EXCEPT !.st.blocks = delete_block(@, curr.hash)])
  IN step(rb_txs(r, curr.txs, 1))

\* rollback_chain_to_block
rollback_chain_to_block(r, target_hash) ==
  IF get_last_block(r.st.blocks, r.st.lh) = {} \/ get_block(r.st.blocks, target_hash) = {}
  THEN [r EXCEPT !.err = TRUE]
  ELSE LET set_tip(r1) == IF r1.err THEN r1 ELSE [r1 EXCEPT !.st.lh = target_hash]
       IN set_tip(rb_blocks(r, CHOOSE b \in get_last_block(r.st.blocks, r.st.lh) : TRUE,
                            target_hash))

\* apply_block_to_chain, the loop over the inputs of one transaction
RECURSIVE ap_inputs(_, _, _)
ap_inputs(r, tx, k) ==
  IF r.err \/ k > Len(tx.inputs) THEN r
  ELSE LET input == tx.inputs[k]
           record(r1, prev_tx) ==
             IF input.out + 1 > Len(prev_tx.outputs)
             THEN [r1 EXCEPT !.err = TRUE, !.panic = TRUE]
             ELSE ap_inputs(
                    [r1 EXCEPT !.snap.utxo_changes =
                                 Append(@, Added(input.prev_tx_id, input.out,
                                                 prev_tx.outputs[input.out + 1]))],
                    tx, k + 1)
           found(r1, prev) ==
             IF prev = {} THEN [r1 EXCEPT !.err = TRUE]
             ELSE record(r1, CHOOSE x \in prev : TRUE)
           deleted(r1) ==
             found(r1, get_tx_from_chain(r1.st.blocks, r1.st.lh, input.prev_tx_id))
       IN deleted([r EXCEPT !.st.utxo = delete_utxo(@, input.prev_tx_id, input.out)])

apply_tx(r, tx) ==
  LET n == Len(tx.outputs)
      outputs(r1) ==
        IF r1.err THEN r1
        ELSE [r1 EXCEPT !.st.utxo = put_outputs(@, tx),
                        !.snap.utxo_changes = @ \o [k \in 1..n |-> Removed(tx.id, k - 1)],
                        !.st.mempool = remove_txs_from_mempool(@, {tx.id})]
  IN outputs(ap_inputs(r, tx, 1))

RECURSIVE ap_txs(_, _, _)
ap_txs(r, txs, k) ==
  IF r.err \/ k > Len(txs) THEN r ELSE ap_txs(apply_tx(r, txs[k]), txs, k + 1)

\* apply_block_to_chain
apply_block_to_chain(r, block) ==
  LET store(r1) ==
        IF r1.err THEN r1
        ELSE [r1 EXCEPT !.st.blocks = put_block(@, block), !.st.lh = block.hash]
  IN store(ap_txs(r, block.txs, 1))

\* validate_and_apply_block: block.verify()? only propagates an Err, the
\* boolean it returns is dropped
validate_and_apply_block(r, block) == apply_block_to_chain(r, block)

RECURSIVE ap_chain(_, _, _)
ap_chain(r, chain, k) ==
  IF r.err \/ k > Len(chain) THEN r
  ELSE ap_chain(validate_and_apply_block(r, chain[k]), chain, k + 1)

\* adopt_orphan_chain: the state afterwards, with the attempt added to events.
\* res is the function's result; stage tells how far the attempt went.
adopt_orphan_chain(st, base_block, orphan_chain) ==
  LET ev(s, res, stage) ==
        [s EXCEPT !.events = @ \cup
           {[res |-> res, stage |-> stage, base |-> base_block.hash,
             last |-> orphan_chain[Len(orphan_chain)].hash,
             chain |-> [k \in 1..Len(orphan_chain) |-> orphan_chain[k].hash],
             pre_lh |-> st.lh, pre_utxo |-> st.utxo, pre_blocks |-> st.blocks,
             post_lh |-> s.lh, post_utxo |-> s.utxo, post_blocks |-> s.blocks]}]
      restored(r) == [restore_snapshot(r.st, r.snap) EXCEPT !.is_locked = FALSE]
      \* what the function leaves and returns, given how far it got
      outcome(r, stage) ==
        IF r.panic THEN ev(r.st, "Panic", stage)
        ELSE IF r.err THEN ev(restored(r), "Err", stage)
        ELSE ev([r.st EXCEPT !.is_locked = FALSE,
                             !.orphans = remove_from_orphan_blocks(@, Hashes(Range(orphan_chain)))],
                "Ok", "done")
      applied(r1) ==
        IF r1.err THEN outcome(r1, "rollback")
        ELSE outcome(ap_chain(r1, orphan_chain, 1), "apply")
      snapshot(s1, snaps) ==
        IF snaps = {} THEN ev(s1, "Err", "snapshot")
        ELSE applied(rollback_chain_to_block(
                       [st |-> s1, snap |-> CHOOSE x \in snaps : TRUE,
                        err |-> FALSE, panic |-> FALSE],
                       base_block.hash))
  IN IF st.is_locked THEN ev(st, "Err", "lock")
     ELSE snapshot([st EXCEPT !.is_locked = TRUE],
                   create_snapshot([st EXCEPT !.is_locked = TRUE], base_block.hash))

\* build_orphan_chain: follow "an orphan whose prev_hash is the current tail"
RECURSIVE build_orphan_chain_from(_, _)
build_orphan_chain_from(chain, orphan_map) ==
  LET nexts == {b \in orphan_map : b.prev_hash = chain[Len(chain)].hash}
  IN IF nexts = {} THEN {chain}
     ELSE UNION {build_orphan_chain_from(Append(chain, n), orphan_map) : n \in nexts}

build_orphan_chain(starting_orphan, orphan_map) ==
  build_orphan_chain_from(<<starting_orphan>>, orphan_map)

\* prune_orphan_chain
prune_orphan_chain(st, orphan_chain) ==
  [st EXCEPT !.orphans = remove_from_orphan_blocks(@, Hashes(Range(orphan_chain)))]

\* a loop that leaves the lock as a failed adoption left it
RECURSIVE reorg_loop_keeps_lock(_, _, _)
reorg_loop_keeps_lock(st, pending, orphan_map) ==
  IF pending = {} THEN {[st EXCEPT !.ret = "Ok"]}
  ELSE UNION {
    UNION {
      LET base == get_block(st.blocks, orphan.prev_hash)
          tipb == get_last_block(st.blocks, st.lh)
          adopted(s1) ==
            IF \E e \in s1.events \ st.events : e.res = "Panic"
            THEN {[s1 EXCEPT !.ret = "Panic"]}
            ELSE reorg_loop_keeps_lock(s1, pending \ {orphan}, orphan_map)
          compare(base_block, last_chain_block) ==
            IF base_block.height + Len(orphan_chain) > last_chain_block.height
            THEN adopted(adopt_orphan_chain(st, base_block, orphan_chain))
            ELSE IF last_chain_block.height - (base_block.height + Len(orphan_chain))
                      > MAX_ORPHAN_CHAIN_AGE
            THEN {[prune_orphan_chain(st, orphan_chain) EXCEPT !.ret = "Ok"]}
            ELSE reorg_loop_keeps_lock(st, pending \ {orphan}, orphan_map)
      IN IF base = {} \/ tipb = {} THEN {[st EXCEPT !.ret = "Err"]}
         ELSE compare(CHOOSE b \in base : TRUE, CHOOSE b \in tipb : TRUE)
      : orphan_chain \in build_orphan_chain(orphan, orphan_map)}
    : orphan \in pending}

\* check_orphans_for_longest_chain: the loop over the orphans that connect to
\* a stored block, in any iteration order
RECURSIVE reorg_loop(_, _, _)
reorg_loop(st, pending, orphan_map) ==
  IF pending = {} THEN {[st EXCEPT !.ret = "Ok"]}
  ELSE UNION {
    UNION {
      LET base == get_block(st.blocks, orphan.prev_hash)
          tipb == get_last_block(st.blocks, st.lh)
          \* an Err of the adoption is logged, the lock released, the loop goes on
          adopted(s1) ==
            IF \E e \in s1.events \ st.events : e.res = "Panic"
            THEN {[s1 EXCEPT !.ret = "Panic"]}
            ELSE reorg_loop([s1 EXCEPT !.is_locked =
                               IF \E e \in s1.events \ st.events : e.res # "Ok"
                               THEN FALSE ELSE @],
                            pending \ {orphan}, orphan_map)
          compare(base_block, last_chain_block) ==
            IF base_block.height + Len(orphan_chain) > last_chain_block.height
            THEN adopted(adopt_orphan_chain(st, base_block, orphan_chain))
            ELSE IF last_chain_block.height - (base_block.height + Len(orphan_chain))
                      > MAX_ORPHAN_CHAIN_AGE
            THEN {[prune_orphan_chain(st, orphan_chain) EXCEPT !.ret = "Ok"]}
            ELSE reorg_loop(st, pending \ {orphan}, orphan_map)
      IN IF base = {} \/ tipb = {} THEN {[st EXCEPT !.ret = "Err"]}
         ELSE compare(CHOOSE b \in base : TRUE, CHOOSE b \in tipb : TRUE)
      : orphan_chain \in build_orphan_chain(orphan, orphan_map)}
    : orphan \in pending}

check_orphans_for_longest_chain(st) ==
  reorg_loop(st, {o \in st.orphans : o.prev_hash \in Hashes(st.blocks)}, st.orphans)

\* commit_block and check_for_valid_orphan_blocks call each other
RECURSIVE commit_block(_, _)
RECURSIVE drain_loop(_, _)

\* check_for_valid_orphan_blocks: commit every orphan on the tip read at entry
drain_loop(st, pending) ==
  IF pending = {} THEN {[st EXCEPT !.ret = "Ok"]}
  ELSE UNION {
    UNION {IF s1.ret # "Ok" THEN {s1} ELSE drain_loop(s1, pending \ {block})
           : s1 \in commit_block(st, block)}
    : block \in pending}

check_for_valid_orphan_blocks(st) ==
  IF st.lh = NoHash THEN {[st EXCEPT !.ret = "Err"]}
  ELSE drain_loop(st, {o \in st.orphans : o.prev_hash = st.lh})

\* commit_block after update_utxos and update_mempool: store, tip, drain, reorg
commit_link(st, block) ==
  LET tip(s1) ==
        IF block.height >= get_chain_height(s1.blocks, s1.lh)
        THEN [s1 EXCEPT !.lh = block.hash] ELSE s1
  IN UNION {IF s3.ret # "Ok" THEN {s3} ELSE check_orphans_for_longest_chain(s3)
            : s3 \in check_for_valid_orphan_blocks(
                       tip([st EXCEPT !.blocks = put_block(@, block),
                                      !.orphans = remove_from_orphan_blocks(@, {block.hash})]))}

\* a commit that applies the block without verifying it
commit_block_unverified(st, block) ==
  UNION {commit_link([st EXCEPT !.utxo = update_utxos(@, block), !.mempool = mp], block)
         : mp \in update_mempool(st.mempool, block)}

\* commit_block: the possible states when it returns
commit_block(st, block) ==
  IF ~block_verify(block, st.utxo)
  THEN IF verify_orphan(block)
       THEN {[st EXCEPT !.orphans = put_block(@, block), !.ret = "Ok"]}
       ELSE {[st EXCEPT !.ret = "Ok"]}
  ELSE UNION {commit_link([st EXCEPT !.utxo = update_utxos(@, block), !.mempool = mp], block)
              : mp \in update_mempool(st.mempool, block)}

\* ------------------------------------------------------------ reindexing

\* get_utxos_from_chain, one block: outputs first seen unless already spent
RECURSIVE chain_utxos_txs(_, _, _)
chain_utxos_txs(acc, txs, k) ==
  IF k > Len(txs) THEN acc
  ELSE LET tx == txs[k]
           outs == {[tx_id |-> tx.id, out |-> j - 1, value |-> tx.outputs[j].value,
                     pub_key_hash |-> tx.outputs[j].pub_key_hash]
                    : j \in {i \in 1..Len(tx.outputs) : <<tx.id, i - 1>> \notin acc.spent}}
       IN chain_utxos_txs(
            [utxo |-> {e \in acc.utxo : \A o \in outs : ~(e.tx_id = o.tx_id /\ e.out = o.out)}
                        \cup outs,
             spent |-> acc.spent \cup (IF is_coinbase(tx) THEN {} ELSE InputKeys(tx))],
            txs, k + 1)

RECURSIVE chain_utxos_from(_, _, _)
chain_utxos_from(bs, h, acc) ==
  IF get_block(bs, h) = {} THEN [ok |-> FALSE, utxo |-> {}]
  ELSE LET b == CHOOSE x \in get_block(bs, h) : TRUE
           acc1 == chain_utxos_txs(acc, b.txs, 1)
       IN IF is_genesis(b) THEN [ok |-> TRUE, utxo |-> acc1.utxo]
          ELSE chain_utxos_from(bs, b.prev_hash, acc1)

\* utxo::get_utxos_from_chain
get_utxos_from_chain(bs, tip) ==
  IF tip = NoHash THEN [ok |-> FALSE, utxo |-> {}]
  ELSE chain_utxos_from(bs, tip, [utxo |-> {}, spent |-> {}])

\* utxo::delete_all_utxos deletes the keys it iterates from the default column
\* family, not from "utxo": the UTXO entries stay
delete_all_utxos(u) == u

\* utxo::reindex_utxos: [ok, utxo]
reindex_utxos(u, bs, tip) ==
  LET c == get_utxos_from_chain(bs, tip)
      u0 == delete_all_utxos(u)
  IN IF ~c.ok THEN [ok |-> FALSE, utxo |-> u0]
     ELSE [ok |-> TRUE,
           utxo |-> {e \in u0 : \A o \in c.utxo : ~(e.tx_id = o.tx_id /\ e.out = o.out)}
                      \cup c.utxo]

\* ------------------------------------------------------------- the miner

MaxMined == 1
MinedNames == <<"M1", "M2", "M3", "M4">>
CoinbaseNames == <<"cbM1", "cbM2", "cbM3", "cbM4">>
RewardAddress == "A"

\* db::reset_mempool, which handle_mine calls: the mempool key is emptied
reset_mempool(mp) == {}

\* Block::new: the coinbase, then the mempool in its iteration order
new_block(bs, tip, ord, n) ==
  LET prev_block == CHOOSE b \in get_last_block(bs, tip) : TRUE
  IN MkBlock(MinedNames[n], prev_block.hash, prev_block.height + 1,
             <<coinbase_tx(CoinbaseNames[n], RewardAddress)>> \o ord, MinedNames[n])

\* the nonce range of the search, standing for 0..u32::MAX
NonceMax == 2

\* Block::mine's loop, `while nonce < max`, from nonce: sol is the least nonce
\* at which the candidate's hash is below the target (NonceMax: none below
\* max); the loop breaks there, or ends with nonce = max
RECURSIVE nonce_loop(_, _)
nonce_loop(sol, nonce) ==
  IF nonce < NonceMax
  THEN IF nonce = sol THEN nonce ELSE nonce_loop(sol, nonce + 1)
  ELSE nonce

\* Block::mine after the transaction loop: the block it stores. When the loop
\* broke on a solution, hash is the solving hash and the key recomputed with
\* that nonce is the same; when the loop ended at max, hash is the hash of
\* the last nonce tried, and the key is the hash recomputed with nonce = max
mine(block, n, sol) ==
  IF nonce_loop(sol, 0) < NonceMax
  THEN block
  ELSE [block EXCEPT !.hash = LastTriedNames[n], !.computed = RehashNames[n],
                     !.key = RehashNames[n]]

\* ------------------------------------------------------- state and steps

State == [blocks |-> blocks, lh |-> lh, utxo |-> utxo, mempool |-> mempool,
          orphans |-> orphans, is_locked |-> is_locked, ret |-> "Ok", events |-> {}]

Idle == [pc |-> "idle", block |-> Genesis, tx |-> cbG, copy |-> {}, ids |-> {}]

NoOp == [op |-> "init", block |-> Genesis, tx |-> cbG, verified |-> FALSE, ret |-> "Ok",
         events |-> {}]

\* the event loop of start_p2p_network running, the Subscribed events of the
\* two connected nodes not yet handled, nothing in flight; node_id is the
\* identity stored under NODE_KEY
NetIdle == [up |-> TRUE, subscribed |-> FALSE, peer_subscribed |-> FALSE, msgs |-> {},
            fifo |-> TRUE, announced |-> 0, joins |-> 0, node_id |-> "N"]

Init ==
  /\ blocks = {Genesis}
  /\ lh = Genesis.hash
  /\ utxo = update_utxos({}, Genesis)
  /\ mempool = {}
  /\ orphans = {}
  /\ is_locked = FALSE
  /\ MINING_LOCK = FALSE
  /\ p2p = Idle
  /\ rest = Idle
  /\ miner = Idle
  /\ mined = 0
  /\ last = NoOp
  /\ scen = "none"
  /\ net = NetIdle

AllIdle == p2p.pc = "idle" /\ rest.pc = "idle" /\ miner.pc = "idle"

\* the chain state after a handler
SetChain(s) ==
  /\ blocks' = s.blocks
  /\ lh' = s.lh
  /\ utxo' = s.utxo
  /\ mempool' = s.mempool
  /\ orphans' = s.orphans
  /\ is_locked' = s.is_locked

\* the reorg scenario: the chain is G, A1, A2 with an empty orphan pool
ScenStart ==
  /\ blocks = {Genesis, A1, A2}
  /\ lh = A2.hash
  /\ orphans = {}
  /\ utxo = update_utxos(update_utxos(update_utxos({}, Genesis), A1), A2)

ScenNext(block, s) ==
  IF block = B1 /\ ScenStart /\ B1 \in s.orphans THEN "b1"
  ELSE IF block = B2 /\ scen = "b1" /\ B2 \in s.orphans THEN "b2"
  ELSE IF block = B3 /\ scen = "b2" THEN "b3"
  ELSE "none"

\* handle_inventory_res(Inventory::Block): commit_block as one step
RecvBlock(block) ==
  /\ AllIdle
  /\ \E s \in commit_block(State, block) :
       /\ SetChain(s)
       /\ last' = [op |-> "commit_block", block |-> block, tx |-> cbG,
                   verified |-> block_verify(block, utxo), ret |-> s.ret,
                   events |-> s.events]
       /\ scen' = ScenNext(block, s)
  /\ UNCHANGED <<MINING_LOCK, p2p, rest, miner, mined>>
  /\ UNCHANGED net

\* handle_inventory_res(Inventory::Transaction) as one step
RecvTx(tx) ==
  /\ AllIdle
  /\ LET ok == tx_verify(tx, utxo) /\ no_double_spend(mempool, tx)
     IN /\ mempool' = IF ok THEN put_mempool(mempool, tx) ELSE mempool
        /\ last' = [NoOp EXCEPT !.op = "recv_tx", !.tx = tx, !.verified = tx_verify(tx, utxo),
                                !.ret = IF ok THEN "Ok" ELSE "Err"]
  /\ scen' = "none"
  /\ UNCHANGED <<blocks, lh, utxo, orphans, is_locked, MINING_LOCK, p2p, rest, miner, mined>>
  /\ UNCHANGED net

\* handlers::handle_send_tx as one step: reindex, verify (result dropped), admit
SendTx(tx) ==
  /\ AllIdle
  /\ LET re == reindex_utxos(utxo, blocks, lh)
         ok == re.ok /\ no_double_spend(mempool, tx)
     IN /\ utxo' = re.utxo
        /\ mempool' = IF ok THEN put_mempool(mempool, tx) ELSE mempool
        /\ last' = [NoOp EXCEPT !.op = "send_tx", !.tx = tx,
                                !.verified = tx_verify(tx, re.utxo),
                                !.ret = IF ok THEN "Ok" ELSE "Err"]
  /\ scen' = "none"
  /\ UNCHANGED <<blocks, lh, orphans, is_locked, MINING_LOCK, p2p, rest, miner, mined>>
  /\ UNCHANGED net

\* a miner tick with handle_mine as one step
Mine ==
  /\ AllIdle
  /\ ~MINING_LOCK
  /\ mined < MaxMined
  /\ mempool # {}
  /\ get_last_block(blocks, lh) # {}
  /\ \E ord \in Perms(mempool) : \E sol \in 0..NonceMax :
       LET b == mine(new_block(blocks, lh, ord, mined + 1), mined + 1, sol)
       IN /\ blocks' = put_block(blocks, b)
          /\ lh' = b.key
          /\ utxo' = update_utxos(utxo, b)
          /\ mempool' = reset_mempool(mempool)
          /\ last' = [NoOp EXCEPT !.op = "mine", !.block = b,
                                  !.verified = block_verify(b, utxo)]
  /\ mined' = mined + 1
  /\ scen' = "none"
  /\ UNCHANGED <<orphans, is_locked, MINING_LOCK, p2p, rest, miner>>
  /\ UNCHANGED net

Next ==
  \/ \E block \in PeerBlocks : RecvBlock(block)
  \/ \E tx \in PeerTxs : RecvTx(tx)
  \/ \E tx \in RestTxs : SendTx(tx)
  \/ Mine

Spec == Init /\ [][Next]_vars

\* a node started without --mine: the handlers of the P2P task and of the
\* REST API, one at a time, with one more peer block
NodeBlocks == PeerBlocks \cup {Z1}

NextNoMine ==
  \/ \E block \in NodeBlocks : RecvBlock(block)
  \/ \E tx \in PeerTxs : RecvTx(tx)
  \/ \E tx \in RestTxs : SendTx(tx)

SpecNoMine == Init /\ [][NextNoMine]_vars

\* ------------------------------------------------ the tasks, step by step
\* The P2P task, a REST handler and the mining task run in parallel on the
\* runtime's worker threads; every store operation is one step.

\* commit_block up to update_utxos: verify, then orphan / discard / apply
P2PCommitBegin(block) ==
  /\ p2p.pc = "idle"
  /\ get_block(blocks, block.hash) = {}
  /\ IF block_verify(block, utxo)
     THEN /\ utxo' = update_utxos(utxo, block)
          /\ p2p' = [Idle EXCEPT !.pc = "evict_read", !.block = block]
          /\ UNCHANGED <<orphans, last>>
     ELSE /\ orphans' = IF verify_orphan(block) THEN put_block(orphans, block) ELSE orphans
          /\ last' = [NoOp EXCEPT !.op = "commit_block", !.block = block]
          /\ UNCHANGED <<utxo, p2p>>
  /\ UNCHANGED <<blocks, lh, mempool, is_locked, MINING_LOCK, rest, miner, mined, scen>>
  /\ UNCHANGED net

\* update_mempool: get_mempool, tx_ids_to_remove, remove_txs_from_mempool's read
P2PEvictRead ==
  /\ p2p.pc = "evict_read"
  /\ \E ids \in tx_ids_to_remove(mempool, p2p.block) :
       p2p' = [p2p EXCEPT !.pc = "evict_write", !.ids = ids, !.copy = mempool]
  /\ UNCHANGED <<blocks, lh, utxo, mempool, orphans, is_locked, MINING_LOCK, rest, miner,
                 mined, last, scen>>
  /\ UNCHANGED net

\* remove_txs_from_mempool's write of the modified copy
P2PEvictWrite ==
  /\ p2p.pc = "evict_write"
  /\ mempool' = remove_txs_from_mempool(p2p.copy, p2p.ids)
  /\ p2p' = [p2p EXCEPT !.pc = "link"]
  /\ UNCHANGED <<blocks, lh, utxo, orphans, is_locked, MINING_LOCK, rest, miner, mined,
                 last, scen>>
  /\ UNCHANGED net

\* the rest of commit_block: put_block, tip, orphan drain, reorg check
P2PCommitLink ==
  /\ p2p.pc = "link"
  /\ \E s \in commit_link(State, p2p.block) :
       /\ SetChain(s)
       /\ last' = [NoOp EXCEPT !.op = "commit_block", !.block = p2p.block, !.verified = TRUE,
                               !.ret = s.ret, !.events = s.events]
  /\ p2p' = Idle
  /\ UNCHANGED <<MINING_LOCK, rest, miner, mined, scen>>
  /\ UNCHANGED net

\* handle_inventory_res(Transaction): verify and the double-spend checks
P2PTxCheck(tx) ==
  /\ p2p.pc = "idle"
  /\ tx.id \notin {x.id : x \in mempool} /\ ~utxo_set_contains_tx(utxo, tx.id)
  /\ IF tx_verify(tx, utxo) /\ no_double_spend(mempool, tx)
     THEN p2p' = [Idle EXCEPT !.pc = "tx_read", !.tx = tx]
     ELSE UNCHANGED p2p
  /\ UNCHANGED <<blocks, lh, utxo, mempool, orphans, is_locked, MINING_LOCK, rest, miner,
                 mined, last, scen>>
  /\ UNCHANGED net

\* put_mempool: get_mempool
P2PTxRead ==
  /\ p2p.pc = "tx_read"
  /\ p2p' = [p2p EXCEPT !.pc = "tx_write", !.copy = mempool]
  /\ UNCHANGED <<blocks, lh, utxo, mempool, orphans, is_locked, MINING_LOCK, rest, miner,
                 mined, last, scen>>
  /\ UNCHANGED net

\* put_mempool: the write of the modified copy
P2PTxWrite ==
  /\ p2p.pc = "tx_write"
  /\ mempool' = put_mempool(p2p.copy, p2p.tx)
  /\ p2p' = Idle
  /\ UNCHANGED <<blocks, lh, utxo, orphans, is_locked, MINING_LOCK, rest, miner, mined,
                 last, scen>>
  /\ UNCHANGED net

\* handle_send_tx: reindex_utxos, verify (result dropped), add_tx_to_mempool's check
RestCheck(tx) ==
  /\ rest.pc = "idle"
  /\ LET re == reindex_utxos(utxo, blocks, lh)
     IN /\ utxo' = re.utxo
        /\ IF re.ok /\ no_double_spend(mempool, tx)
           THEN rest' = [Idle EXCEPT !.pc = "put_read", !.tx = tx]
           ELSE UNCHANGED rest
  /\ UNCHANGED <<blocks, lh, mempool, orphans, is_locked, MINING_LOCK, p2p, miner, mined,
                 last, scen>>
  /\ UNCHANGED net

\* put_mempool: get_mempool
RestPutRead ==
  /\ rest.pc = "put_read"
  /\ rest' = [rest EXCEPT !.pc = "put_write", !.copy = mempool]
  /\ UNCHANGED <<blocks, lh, utxo, mempool, orphans, is_locked, MINING_LOCK, p2p, miner,
                 mined, last, scen>>
  /\ UNCHANGED net

\* put_mempool: the write of the modified copy
RestPutWrite ==
  /\ rest.pc = "put_write"
  /\ mempool' = put_mempool(rest.copy, rest.tx)
  /\ rest' = Idle
  /\ UNCHANGED <<blocks, lh, utxo, orphans, is_locked, MINING_LOCK, p2p, miner, mined,
                 last, scen>>
  /\ UNCHANGED net

\* a tick that spawns a task whatever the flag holds
tick_spawns_always(lock) == TRUE

\* start_miner: !MINING_LOCK.swap(true, SeqCst), the tick spawns handle_mine
\* exactly when the flag it swapped out was false
tick_spawns(lock) == ~lock

\* start_miner: a tick swaps the flag to true and, if it was false, spawns
\* handle_mine; the number of spawned tasks that mine is capped by MaxMined
MinerTick ==
  /\ MINING_LOCK \/ mined < MaxMined
  /\ MINING_LOCK' = TRUE
  /\ IF tick_spawns(MINING_LOCK)
     THEN miner' = [Idle EXCEPT !.pc = "new"]
     ELSE UNCHANGED miner
  /\ UNCHANGED <<blocks, lh, utxo, mempool, orphans, is_locked, p2p, rest, mined, last, scen>>
  /\ UNCHANGED net

\* handle_mine: get_mempool and Block::new; the task ends on an empty mempool
MineNew ==
  /\ miner.pc = "new"
  /\ IF mempool = {} \/ get_last_block(blocks, lh) = {}
     THEN /\ miner' = Idle
          /\ MINING_LOCK' = FALSE
          /\ UNCHANGED mined
     ELSE /\ \E ord \in Perms(mempool) :
               miner' = [miner EXCEPT !.pc = "mine",
                                      !.block = new_block(blocks, lh, ord, mined + 1)]
          /\ mined' = mined + 1
          /\ UNCHANGED MINING_LOCK
  /\ UNCHANGED <<blocks, lh, utxo, mempool, orphans, is_locked, p2p, rest, last, scen>>
  /\ UNCHANGED net

\* Block::mine: the nonce search, put_block, put_last_hash
MineStore ==
  /\ miner.pc = "mine"
  /\ \E sol \in 0..NonceMax :
       LET b == mine(miner.block, mined, sol)
       IN /\ blocks' = put_block(blocks, b)
          /\ lh' = b.key
          /\ miner' = [miner EXCEPT !.pc = "utxos", !.block = b]
  /\ UNCHANGED <<utxo, mempool, orphans, is_locked, MINING_LOCK, p2p, rest, mined, last, scen>>
  /\ UNCHANGED net

\* handle_mine: update_utxos
MineUtxos ==
  /\ miner.pc = "utxos"
  /\ utxo' = update_utxos(utxo, miner.block)
  /\ miner' = [miner EXCEPT !.pc = "reset"]
  /\ UNCHANGED <<blocks, lh, mempool, orphans, is_locked, MINING_LOCK, p2p, rest, mined,
                 last, scen>>
  /\ UNCHANGED net

\* handle_mine: reset_mempool, the inventory message, and the flag's release
MineReset ==
  /\ miner.pc = "reset"
  /\ mempool' = reset_mempool(mempool)
  /\ miner' = Idle
  /\ MINING_LOCK' = FALSE
  /\ UNCHANGED <<blocks, lh, utxo, orphans, is_locked, p2p, rest, mined, last, scen>>
  /\ UNCHANGED net

\* a panic inside the spawned task (db::get_mempool's unwrap, the stdout
\* flush's unwrap and put_block's expect in Block::mine): the task unwinds
\* before its write and the store(false) after handle_mine never runs
MinePanic ==
  /\ miner.pc \in {"new", "mine"}
  /\ miner' = Idle
  /\ UNCHANGED <<blocks, lh, utxo, mempool, orphans, is_locked, MINING_LOCK, p2p, rest,
                 mined, last, scen>>
  /\ UNCHANGED net

NextConc ==
  \/ \E block \in ConcBlocks : P2PCommitBegin(block)
  \/ P2PEvictRead
  \/ P2PEvictWrite
  \/ P2PCommitLink
  \/ \E tx \in ConcPeerTxs : P2PTxCheck(tx)
  \/ P2PTxRead
  \/ P2PTxWrite
  \/ \E tx \in ConcRestTxs : RestCheck(tx)
  \/ RestPutRead
  \/ RestPutWrite
  \/ MinerTick
  \/ MineNew
  \/ MineStore
  \/ MineUtxos
  \/ MineReset
  \/ MinePanic

SpecConc == Init /\ [][NextConc]_vars

\* the P2P task and the mining task alone, with two peer blocks in flight
RaceBlocks == {A1, A2}

NextRace ==
  \/ \E block \in RaceBlocks : P2PCommitBegin(block)
  \/ P2PEvictRead
  \/ P2PEvictWrite
  \/ P2PCommitLink
  \/ \E tx \in ConcPeerTxs : P2PTxCheck(tx)
  \/ P2PTxRead
  \/ P2PTxWrite
  \/ MinerTick
  \/ MineNew
  \/ MineStore
  \/ MineUtxos
  \/ MineReset
  \/ MinePanic

SpecRace == Init /\ [][NextRace]_vars

\* ------------------------------------------------- a node that syncs a chain
\* A peer serves a chain of coinbase-only blocks K1, K2, ... on the genesis
\* block, two blocks more than MAX_ORPHAN_CHAIN_AGE, the blocks O1 and O2 on
\* the genesis block and O3 on K1, each with a transaction whose input is not
\* a UTXO.

SyncHeight == MAX_ORPHAN_CHAIN_AGE + 2
SyncNames == <<"K1", "K2", "K3", "K4", "K5", "K6", "K7", "K8", "K9", "K10", "K11", "K12">>
SyncCoinbases == <<"cbK1", "cbK2", "cbK3", "cbK4", "cbK5", "cbK6", "cbK7", "cbK8", "cbK9",
                   "cbK10", "cbK11", "cbK12">>

K(n) ==
  MkBlock(SyncNames[n], IF n = 1 THEN Genesis.hash ELSE SyncNames[n - 1], n,
          <<coinbase_tx(SyncCoinbases[n], "B")>>, SyncNames[n])

O1 == MkBlock("O1", Genesis.hash, 1, <<coinbase_tx("cbO1", "C"), t3>>, "O1")
O2 == MkBlock("O2", Genesis.hash, 1, <<coinbase_tx("cbO2", "C"), t4>>, "O2")

O3 == MkBlock("O3", SyncNames[1], 2, <<coinbase_tx("cbO3", "C"), t5>>, "O3")

SyncBlocks == {K(n) : n \in 1..SyncHeight} \cup {O1, O2, O3}

\* handle_new_inventory requests a block the node does not store; the peer
\* announces a block once the node stores its parent
SyncBlock(block) ==
  /\ get_block(blocks, block.hash) = {}
  /\ get_block(blocks, block.prev_hash) # {}
  /\ RecvBlock(block)

NextSync == \E block \in SyncBlocks : SyncBlock(block)

SpecSync == Init /\ [][NextSync]_vars

\* ------------------------------------------------------------ properties

RECURSIVE chain_from(_, _, _)
\* the blocks on the prev_hash path from hash h, at most n of them
chain_from(bs, h, n) ==
  IF n = 0 \/ get_block(bs, h) = {} THEN {}
  ELSE LET b == CHOOSE x \in get_block(bs, h) : TRUE
       IN IF is_genesis(b) THEN {b} ELSE {b} \cup chain_from(bs, b.prev_hash, n - 1)

\* the main chain: the prev_hash path from the tip
MainChain == chain_from(blocks, lh, Cardinality(blocks))

\* the (tx_id, out) keys of a UTXO set
UtxoKeys(u) == {<<e.tx_id, e.out>> : e \in u}

\* the outputs produced on the main chain and the ones its inputs spend
MainChainTxs == UNION {Range(b.txs) : b \in MainChain}
MainChainOutputs == UNION {{<<tx.id, k>> : k \in 0..(Len(tx.outputs) - 1)} : tx \in MainChainTxs}
MainChainSpent == UNION {InputKeys(tx) : tx \in {x \in MainChainTxs : ~is_coinbase(x)}}

\* C1: in every reachable state an entry (tx_id, out) is in the UTXO set iff
\* its transaction is in a main-chain block and no input of a non-coinbase
\* main-chain transaction references it
UtxoClosure == UtxoKeys(utxo) = MainChainOutputs \ MainChainSpent

\* C2: every block of height > 0 on the prev_hash path from the tip has its
\* prev_hash stored as a block of height one less, and a hash below the target
MainChainLinked ==
  \A b \in MainChain :
    b.height > 0 =>
      /\ \E prev \in get_block(blocks, b.prev_hash) : prev.height = b.height - 1
      /\ below_target(b.hash)

\* C3: under any interleaving of the tasks, no two distinct mempool
\* transactions have an input referencing the same (prev_tx_id, out)
NoMempoolDoubleSpend ==
  \A a \in mempool : \A b \in mempool :
    a # b => InputKeys(a) \cap InputKeys(b) = {}

\* C4: after commit_block succeeds for a fully verified block, no input of its
\* non-coinbase transactions is a UTXO and every output of its transactions is
\* the UTXO under (tx id, index); an output that a main-chain transaction has
\* spent since (an orphan child committed by the same call) is left aside
CommitAppliesBlock ==
  (last.op = "commit_block" /\ last.verified /\ last.ret = "Ok") =>
    \A k \in 1..Len(last.block.txs) :
      LET tx == last.block.txs[k]
      IN /\ ~is_coinbase(tx) =>
              \A key \in InputKeys(tx) : get_utxo(utxo, key[1], key[2]) = {}
         /\ \A o \in 1..Len(tx.outputs) :
              <<tx.id, o - 1>> \notin MainChainSpent =>
                get_utxo(utxo, tx.id, o - 1) =
                  {[tx_id |-> tx.id, out |-> o - 1, value |-> tx.outputs[o].value,
                    pub_key_hash |-> tx.outputs[o].pub_key_hash]}

\* C6: when a reorg fails in the rollback or in re-applying an orphan block,
\* after the snapshot restore the UTXO set and the tip are what they were
\* before the reorg started
RestoreRoundTrip ==
  \A e \in last.events :
    (e.res = "Err" /\ e.stage \in {"rollback", "apply"}) =>
      e.post_utxo = e.pre_utxo /\ e.post_lh = e.pre_lh

\* C7: from the chain G, A1, A2 with an empty orphan pool, after B1 and B2 are
\* orphaned and B3 is received, a reorg has run, the tip is B3 and A1 and A2
\* are no longer stored
ReorgScenario ==
  scen = "b3" =>
    /\ last.events # {}
    /\ lh = B3.hash
    /\ get_block(blocks, A1.hash) = {}
    /\ get_block(blocks, A2.hash) = {}

\* C8: when an adoption fails, the commit_block call whose reorg check made
\* the attempt returns an error
AdoptionFailureSurfaced ==
  (last.op = "commit_block" /\ \E e \in last.events : e.res # "Ok") => last.ret # "Ok"

\* a block commit is between its start and its end
Committing == p2p.pc \in {"evict_read", "evict_write", "link"}

\* C9: between the start and the end of a block commit no write of the miner
\* to the block store, tip, UTXO set or mempool takes effect
CommitExclusive ==
  [][(Committing /\ miner' # miner) => UNCHANGED <<blocks, lh, utxo, mempool>>]_vars

\* C10: when admissions and evictions interleave (the miner having written
\* nothing), each write leaves the mempool as the operation applied to the
\* mempool of that moment: no admitted transaction is lost, no evicted one
\* reappears
MempoolOpsApplied ==
  [][mined = 0 =>
       /\ (rest.pc = "put_write" /\ rest'.pc = "idle") =>
            mempool' = put_mempool(mempool, rest.tx)
       /\ (p2p.pc = "tx_write" /\ p2p'.pc = "idle") =>
            mempool' = put_mempool(mempool, p2p.tx)
       /\ (p2p.pc = "evict_write" /\ p2p'.pc = "link") =>
            mempool' = remove_txs_from_mempool(mempool, p2p.ids)]_vars

\* C11: at most one mining task runs at a time: a task is spawned only by a
\* step that finds the flag clear and no task running, and a tick that finds
\* the flag set changes no state
SingleMiningTask ==
  [][/\ (miner'.pc = "new" /\ miner' # miner) => (~MINING_LOCK /\ miner.pc = "idle")
     /\ (MINING_LOCK /\ MINING_LOCK' /\ miner.pc = "idle") => miner'.pc = "idle"]_vars

\* C11 witness: the flag is set and a task is past Block::new, so that every
\* tick finds the flag set
TickWhileMining == MINING_LOCK /\ miner.pc = "utxos" /\ mempool # {}

\* C12: whenever no mining task is running, whatever way the last one ended,
\* the flag is false
MiningFlagReleased == miner.pc = "idle" => ~MINING_LOCK

\* C13: a transaction submitted through POST /tx/send whose verification does
\* not hold is not admitted: the handler fails and the mempool is unchanged
RestRejectsUnverified ==
  [][(last'.op = "send_tx" /\ ~last'.verified) =>
       (last'.ret = "Err" /\ mempool' = mempool)]_vars

\* the handler of the step reached add_tx_to_mempool with the transaction of
\* l: a submission whose reindex succeeded, or a verified peer transaction
Admitting(l) ==
  \/ l.op = "send_tx" /\ reindex_utxos(utxo, blocks, lh).ok
  \/ l.op = "recv_tx" /\ l.verified

\* C14: add_tx_to_mempool fails and leaves the mempool unchanged when an
\* input of the transaction references a (prev_tx_id, out) that a mempool
\* transaction references; otherwise the transaction is stored under its id
\* and no other entry changes
AdmissionContract ==
  [][Admitting(last') =>
       LET tx == last'.tx
       IN IF \E m \in mempool : InputKeys(m) \cap InputKeys(tx) # {}
          THEN last'.ret = "Err" /\ mempool' = mempool
          ELSE /\ last'.ret = "Ok"
               /\ tx \in mempool'
               /\ \A m \in mempool : m.id # tx.id => m \in mempool'
               /\ \A m \in mempool' : m.id # tx.id => m \in mempool]_vars

\* C14 witness: a submission was refused because another mempool transaction
\* spends one of its inputs
AdmissionRefused ==
  /\ last.op = "send_tx" /\ last.ret = "Err"
  /\ \E m \in mempool : m.id # last.tx.id /\ InputKeys(m) \cap InputKeys(last.tx) # {}

\* C15: a fully verified block whose prev_hash is not the current tip is not
\* applied by the extend path of commit_block: when no reorg was attempted,
\* the UTXO set and the tip are what they were and the block is not stored
ExtendOnlyAtTip ==
  [][(/\ last'.op = "commit_block"
      /\ last'.verified
      /\ last'.block.prev_hash # lh
      /\ last'.events = {}) =>
       (/\ utxo' = utxo
        /\ lh' = lh
        /\ get_block(blocks', last'.block.hash) = get_block(blocks, last'.block.hash))]_vars

\* C16: in every reachable state the tip names a stored block whose height is
\* at least the height of every stored block, under any interleaving of peer
\* commits and miner stores
TipIsHighest ==
  \E tip \in get_block(blocks, lh) : \A b \in blocks : b.height <= tip.height

StaleOrphansPruned ==
  (last.op = "commit_block" /\ last.verified /\ last.ret = "Ok") =>
    \A o \in orphans : \A base \in get_block(blocks, o.prev_hash) :
      \A tip \in get_last_block(blocks, lh) : \A chain \in build_orphan_chain(o, orphans) :
        tip.height - (base.height + Len(chain)) <= MAX_ORPHAN_CHAIN_AGE

\* the mined blocks: the ones whose coinbase the miner created
MinedBlocks(bs) == {b \in bs : b.txs[1].id \in Range(CoinbaseNames)}

\* C19: a mining attempt is rejected (an error, no block stored, the tip
\* unchanged) when a non-coinbase transaction of the candidate fails
\* verification or spends an input that another mempool transaction spends
MineRejectsInvalid ==
  [][(/\ last'.op = "mine"
      /\ \E k \in 2..Len(last'.block.txs) :
           \/ ~tx_verify(last'.block.txs[k], utxo)
           \/ \E m \in mempool : /\ m.id # last'.block.txs[k].id
                                  /\ InputKeys(m) \cap InputKeys(last'.block.txs[k]) # {}) =>
       (last'.ret = "Err" /\ blocks' = blocks /\ lh' = lh)]_vars

\* C20: every block the miner has stored has a hash below the target that
\* equals the hash recomputed from its fields (a search that exhausts the
\* nonce range stores nothing)
MinedBlockSolved ==
  \A b \in MinedBlocks(blocks) : below_target(b.hash) /\ b.hash = b.computed

\* C27: a handler that ran reindex_utxos() to Ok (POST /tx/send does, first
\* thing) leaves the UTXO set holding exactly the outputs of main-chain
\* transactions that no non-coinbase main-chain input references, whatever
\* the UTXO set held before
ReindexRebuilds ==
  [][(last'.op = "send_tx" /\ reindex_utxos(utxo, blocks, lh).ok)
       => UtxoKeys(utxo') = MainChainOutputs \ MainChainSpent]_vars

\* the output references that the non-coinbase transactions of block b spend
BlockSpent(b) ==
  UNION {InputKeys(b.txs[k]) : k \in {j \in 1..Len(b.txs) : ~is_coinbase(b.txs[j])}}

\* C29: when commit_block has committed a block, no transaction left in the
\* mempool has an input that a non-coinbase transaction of the block spends,
\* and every transaction that was in the mempool and shares no input
\* reference with the block is still there
CommitEvictsSpenders ==
  [][(last'.op = "commit_block" /\ last'.verified /\ last' # last)
       => /\ \A tx \in mempool' : InputKeys(tx) \cap BlockSpent(last'.block) = {}
          /\ \A tx \in mempool :
               InputKeys(tx) \cap BlockSpent(last'.block) = {} => tx \in mempool']_vars

\* ------------------------------------------------------------- wallets
\* The wallet clients (CLI, wasm) and the REST handlers they call.  A value
\* is a u32; U32_MAX stands for u32::MAX and the arithmetic wraps there.

\* u32 `+=`: with overflow checks (a debug build) a sum above u32::MAX
\* panics, without them (a release build) it wraps
overflows(a, b) == a > U32_MAX - b
wrapping_add(a, b) == IF overflows(a, b) THEN a - (U32_MAX - b) - 1 ELSE a + b

\* Tx::hash: SHA-256 of the serialized transaction with the id zeroed; the
\* digest of a content is the content written out
hash(tx) == ToString([tx EXCEPT !.id = ZeroHash])

\* Tx::sign: every input of a non-coinbase transaction gets the signature of
\* priv_key; it verifies (sig_ok) under the input's pub_key when the two match
RECURSIVE sign_inputs(_, _, _)
sign_inputs(inputs, pk, k) ==
  IF k > Len(inputs) THEN <<>>
  ELSE <<[inputs[k] EXCEPT !.sig_ok = (inputs[k].pub_key = pk)]>> \o sign_inputs(inputs, pk, k + 1)

sign(tx, pk) ==
  IF is_coinbase(tx) THEN tx ELSE [tx EXCEPT !.inputs = sign_inputs(tx.inputs, pk, 1)]

\* Tx::new, the loop over spendable_txos in iteration order ord: one input
\* with the empty signature per entry, and the sum of the values
RECURSIVE new_inputs(_, _, _)
new_inputs(ord, pk, k) ==
  IF k > Len(ord) THEN <<>>
  ELSE <<TxIn(ord[k].tx_id, ord[k].out, pk, FALSE)>> \o new_inputs(ord, pk, k + 1)

RECURSIVE new_sum(_, _, _)
new_sum(ord, k, acc) ==
  IF k > Len(ord) THEN acc
  ELSE new_sum(ord, k + 1,
               [sum |-> wrapping_add(acc.sum, ord[k].value),
                overflowed |-> acc.overflowed \/ overflows(acc.sum, ord[k].value)])

\* a Tx::new that leaves the change to nobody
Tx_new_no_change(pk, to, value, ord, overflow_checks) ==
  LET new_tx == MkTx(ZeroHash, new_inputs(ord, pk, 1), <<TxOut(value, to)>>)
  IN [ret |-> "Ok", tx |-> sign([new_tx EXCEPT !.id = hash(new_tx)], pk)]

\* Tx::new(from_wallet, to_address, value, spendable_txos): [ret, tx]
Tx_new(pk, to, value, ord, overflow_checks) ==
  LET s == new_sum(ord, 1, [sum |-> 0, overflowed |-> FALSE])
      outputs == <<TxOut(value, to)>> \o
                   (IF s.sum > value THEN <<TxOut(s.sum - value, hash_pub_key(pk))>> ELSE <<>>)
      new_tx == MkTx(ZeroHash, new_inputs(ord, pk, 1), outputs)
  IN IF s.overflowed /\ overflow_checks
     THEN [ret |-> "panic", tx |-> new_tx]
     ELSE [ret |-> "Ok", tx |-> sign([new_tx EXCEPT !.id = hash(new_tx)], pk)]

\* the orders in which the "utxo" column family is iterated: the buckets key
\* by key, the entries of a bucket in the order of its HashMap
IterOrders(u) ==
  {s \in Perms(u) : \A i, j, k \in 1..Cardinality(u) :
                      (i < j /\ j < k /\ s[i].tx_id = s[k].tx_id) => s[j].tx_id = s[i].tx_id}

\* find_spendable_utxos, its two loops over the entries in order ord: an entry
\* is taken while it is locked to pkh, accumulated < amount and no mempool
\* input references it; both loops break once accumulated >= amount
RECURSIVE spendable_loop(_, _, _, _, _, _)
spendable_loop(ord, k, mp, pkh, amount, acc) ==
  IF k > Len(ord) \/ acc.accumulated >= amount THEN acc
  ELSE LET e == ord[k]
           take == /\ e.pub_key_hash = pkh
                   /\ acc.accumulated < amount
                   /\ ~mempool_contains_txo(mp, e.tx_id, e.out)
       IN spendable_loop(ord, k + 1, mp, pkh, amount,
            IF take
            THEN [accumulated |-> wrapping_add(acc.accumulated, e.value),
                  utxo_map |-> acc.utxo_map \cup {e},
                  overflowed |-> acc.overflowed \/ overflows(acc.accumulated, e.value)]
            ELSE acc)

\* utxo::find_spendable_utxos(pub_key_hash, amount): [ret, utxos]
find_spendable_utxos(ord, mp, pkh, amount, overflow_checks) ==
  LET r == spendable_loop(ord, 1, mp, pkh, amount,
                          [accumulated |-> 0, utxo_map |-> {}, overflowed |-> FALSE])
  IN IF r.overflowed /\ overflow_checks THEN [ret |-> "panic", utxos |-> {}]
     ELSE IF r.accumulated < amount THEN [ret |-> "Err", utxos |-> {}]
     ELSE [ret |-> "Ok", utxos |-> r.utxo_map]

\* utxo::find_utxos_for_addr
find_utxos_for_addr(u, pkh) == {e \in u : e.pub_key_hash = pkh}

\* handle_get_wallet_balance's loop `balance += utxo.value`
RECURSIVE balance_sum(_, _)
balance_sum(es, acc) ==
  IF es = {} THEN acc
  ELSE LET e == CHOOSE x \in es : TRUE
       IN balance_sum(es \ {e},
                      [sum |-> wrapping_add(acc.sum, e.value),
                       overflowed |-> acc.overflowed \/ overflows(acc.sum, e.value)])

\* handlers::handle_get_wallet_balance after the reindex: [ret, balance]
wallet_balance(u, pkh, overflow_checks) ==
  LET b == balance_sum(find_utxos_for_addr(u, pkh), [sum |-> 0, overflowed |-> FALSE])
  IN IF b.overflowed /\ overflow_checks THEN [ret |-> "panic", balance |-> 0]
     ELSE [ret |-> "Ok", balance |-> b.sum]

\* what a wallet request leaves in the history
WalletOp(op, tx, ret, pkh, amount, utxos) ==
  [op |-> op, block |-> Genesis, tx |-> tx, verified |-> FALSE, ret |-> ret, events |-> {},
   pkh |-> pkh, amount |-> amount, utxos |-> utxos]

WalletKeys == {"pkA", "pkB"}
SendValues == {30, 100, U32_MAX - 47}
AskAmounts == {0, 30, 100, 170, U32_MAX}

\* GET /utxo?address=..&amount=..: handle_get_spendable_utxos
GetSpendable(pkh, amount) ==
  /\ AllIdle
  /\ \E ord \in IterOrders(utxo) : \E overflow_checks \in BOOLEAN :
       LET r == find_spendable_utxos(ord, mempool, pkh, amount, overflow_checks)
       IN last' = WalletOp("find_spendable", cbG, r.ret, pkh, amount, r.utxos)
  /\ scen' = "none"
  /\ UNCHANGED <<blocks, lh, utxo, mempool, orphans, is_locked, MINING_LOCK, p2p, rest,
                 miner, mined>>
  /\ UNCHANGED net

\* GET /wallet/balance/{addr}: handle_get_wallet_balance
GetBalance(pkh) ==
  /\ AllIdle
  /\ \E overflow_checks \in BOOLEAN :
       LET re == reindex_utxos(utxo, blocks, lh)
           b == wallet_balance(re.utxo, pkh, overflow_checks)
       IN /\ utxo' = re.utxo
          /\ last' = WalletOp("balance", cbG, IF re.ok THEN b.ret ELSE "Err", pkh,
                              IF re.ok THEN b.balance ELSE 0, {})
  /\ scen' = "none"
  /\ UNCHANGED <<blocks, lh, mempool, orphans, is_locked, MINING_LOCK, p2p, rest, miner,
                 mined>>
  /\ UNCHANGED net

\* a client calls Tx::new on UTXOs of the wallet that it holds
TxNew(pk, to, value) ==
  /\ AllIdle
  /\ \E S \in SUBSET find_utxos_for_addr(utxo, hash_pub_key(pk)) :
     \E ord \in Perms(S) : \E overflow_checks \in BOOLEAN :
       LET r == Tx_new(pk, to, value, ord, overflow_checks)
       IN last' = WalletOp("tx_new", r.tx, r.ret, hash_pub_key(pk), value, S)
  /\ scen' = "none"
  /\ UNCHANGED <<blocks, lh, utxo, mempool, orphans, is_locked, MINING_LOCK, p2p, rest,
                 miner, mined>>
  /\ UNCHANGED net

\* cli::handle_send / wasm send_tx: GET /utxo for the value, Tx::new on the
\* answer, POST /tx/send; the client gives up when the node finds no funds
CliSend(pk, to, value) ==
  /\ mined < MaxMined
  /\ \E ord \in IterOrders(utxo) : \E overflow_checks \in BOOLEAN :
       LET r == find_spendable_utxos(ord, mempool, hash_pub_key(pk), value, overflow_checks)
       IN /\ r.ret = "Ok"
          /\ \E ord2 \in Perms(r.utxos) :
               LET t == Tx_new(pk, to, value, ord2, overflow_checks)
               IN t.ret = "Ok" /\ SendTx(t.tx)

\* a client posts to /tx/send the Tx::new of UTXOs it picked itself
PostTx(pk, to, value) ==
  /\ mined < MaxMined
  /\ \E S \in SUBSET find_utxos_for_addr(utxo, hash_pub_key(pk)) :
       /\ S # {}
       /\ \E ord \in Perms(S) :
            LET t == Tx_new(pk, to, value, ord, FALSE)
            IN SendTx(t.tx)

NextWallet ==
  \/ \E pk \in WalletKeys : \E to \in {"A", "B"} : \E value \in SendValues :
       \/ CliSend(pk, to, value)
       \/ PostTx(pk, to, value)
       \/ TxNew(pk, to, value)
  \/ \E pkh \in {"A", "B"} :
       \/ \E amount \in AskAmounts : GetSpendable(pkh, amount)
       \/ GetBalance(pkh)
  \/ Mine

SpecWallet == Init /\ [][NextWallet]_vars

\* whether the values of the entries es add up to at least a (no sum is
\* formed: the values are taken off a one by one)
RECURSIVE covers(_, _)
covers(es, a) ==
  IF a = 0 THEN TRUE
  ELSE IF es = {} THEN FALSE
  ELSE LET e == CHOOSE x \in es : TRUE
       IN covers(es \ {e}, IF e.value >= a THEN 0 ELSE a - e.value)

\* C25: Tx::new fails (insufficient funds) and returns no transaction whenever
\* the supplied spendable UTXOs add up to less than the requested value
NewTxNeedsFunds ==
  (last.op = "tx_new" /\ ~covers(last.utxos, last.amount)) => last.ret = "Err"

\* C26: the id of a transaction that Tx::new returns is the hash of the
\* transaction with its id zeroed
NewTxIdIsHash ==
  (last.op = "tx_new" /\ last.ret = "Ok") => last.tx.id = hash(last.tx)

\* the UTXOs that find_spendable_utxos may pick for pkh
Eligible(pkh) ==
  {e \in utxo : e.pub_key_hash = pkh /\ ~mempool_contains_txo(mempool, e.tx_id, e.out)}

\* C28: find_spendable_utxos(pub_key_hash, amount) returns only UTXOs locked
\* to pub_key_hash that no mempool input references, adding up to at least
\* amount, and none taken after the total reached amount; it fails with
\* insufficient funds exactly when all the eligible UTXOs add up to less
SpendableContract ==
  last.op = "find_spendable" =>
    /\ last.ret = "Ok" =>
         /\ last.utxos \subseteq Eligible(last.pkh)
         /\ covers(last.utxos, last.amount)
         /\ last.utxos # {} => \E e \in last.utxos : ~covers(last.utxos \ {e}, last.amount)
    /\ last.ret = "Err" <=> ~covers(Eligible(last.pkh), last.amount)

\* the transaction of the scenario: A, holding the genesis coinbase, sends 30
\* to B through the CLI
SentTx ==
  Tx_new("pkA", "B", 30,
         <<[tx_id |-> "cbG", out |-> 0, value |-> COINBASE_REWARD, pub_key_hash |-> "A"]>>,
         FALSE).tx

\* the chain of the scenario: genesis and one mined block holding SentTx
SentAndMined ==
  \E b \in blocks :
    /\ blocks = {Genesis, b}
    /\ lh = b.key
    /\ b.prev_hash = Genesis.hash
    /\ b.txs = <<coinbase_tx(CoinbaseNames[1], RewardAddress), SentTx>>

\* C30: from a fresh chain whose genesis coinbase pays 100 to A, after A sent
\* 30 to B and one block was mined with the reward to A, the balance of A is
\* 170, the balance of B is 30, the mempool is empty and the UTXO set holds
\* exactly the three outputs 30 to B, 70 to A and 100 to A
SendAndMineBalances ==
  /\ (last.op = "mine" /\ SentAndMined) =>
       /\ mempool = {}
       /\ utxo = {[tx_id |-> SentTx.id, out |-> 0, value |-> 30, pub_key_hash |-> "B"],
                  [tx_id |-> SentTx.id, out |-> 1, value |-> 70, pub_key_hash |-> "A"],
                  [tx_id |-> CoinbaseNames[1], out |-> 0, value |-> 100, pub_key_hash |-> "A"]}
  /\ (last.op = "balance" /\ SentAndMined) =>
       /\ last.ret = "Ok"
       /\ last.pkh = "A" => last.amount = 170
       /\ last.pkh = "B" => last.amount = 30

\* the balance of A asked after the send and the block
BalanceAfterMine == last.op = "balance" /\ SentAndMined /\ last.pkh = "A" /\ last.amount = 170

\* ------------------------------------------------------ the P2P protocol
\* Two connected nodes: this node (Me, the state above) and a peer whose
\* store does not change.  A topic is the list of the ':'-separated parts of
\* its string; a message in flight carries its place among the messages of its
\* sender that are in flight.
\* net.fifo says whether the transport hands over the messages of one sender
\* in the order of publication (one connection) or in any order.

Me == "N"
Peer == "P"
\* the strings that PeerId::from_str parses
ValidPeerIds == {Me, Peer}

NEW_INV_TOPIC == "new_inv"
INV_REQ_TOPIC == "inv_req"
INV_RES_TOPIC == "inv_res"
CHAIN_SYNC_REQ_TOPIC == "chain_sync_req"
CHAIN_SYNC_RES_TOPIC == "chain_sync_res"

\* GossipTopic::to_ident_topic
to_ident_topic(topic, peer_id) ==
  IF topic \in {NEW_INV_TOPIC, CHAIN_SYNC_REQ_TOPIC} THEN <<topic>>
  ELSE <<"direct", peer_id, topic>>

\* a gossipsub message: topic, source, place in the sender's queue and the payload (a
\* height, a list of hashes, a NewInventory, or an Inventory holding a block
\* or a transaction)
NoMsg == [topic |-> <<>>, source |-> "", seq |-> 0, height |-> 0, hashes |-> <<>>,
          inv |-> [kind |-> "", id |-> ""], block |-> Genesis, tx |-> cbG]

\* the blocks a peer with a longer chain holds: G, A1, A2, E3, E4, where the
\* transaction of E4 spends an output of A1
cbE3 == coinbase_tx("cbE3", "A")
cbE4 == coinbase_tx("cbE4", "A")
t7 == MkTx("t7", <<TxIn("cbA2", 0, "pkA", TRUE)>>, <<TxOut(100, "C")>>)
t8 == MkTx("t8", <<TxIn("t1", 0, "pkB", TRUE)>>, <<TxOut(30, "C")>>)
E3 == MkBlock("E3", "A2", 3, <<cbE3, t7>>, "E3")
E4 == MkBlock("E4", "E3", 4, <<cbE4, t8>>, "E4")
PeerChain == <<Genesis, A1, A2, E3, E4>>

RECURSIVE chain_utxo(_, _)
chain_utxo(chain, k) == IF k = 0 THEN {} ELSE update_utxos(chain_utxo(chain, k - 1), chain[k])

\* a transaction of the peer's mempool: it spends the coinbase of E4
t9 == MkTx("t9", <<TxIn("cbE4", 0, "pkA", TRUE)>>, <<TxOut(100, "B")>>)

PeerState ==
  [blocks |-> Range(PeerChain), lh |-> PeerChain[Len(PeerChain)].hash,
   utxo |-> chain_utxo(PeerChain, Len(PeerChain)), mempool |-> {t9}]

\* block::get_blocks_since_height, the loop from current: [ok, blocks]
RECURSIVE blocks_since(_, _, _, _)
blocks_since(bs, current, height, res) ==
  IF height < current.height \/ height = 0
  THEN IF is_genesis(current) THEN [ok |-> TRUE, blocks |-> Append(res, current)]
       ELSE IF get_block(bs, current.prev_hash) = {} THEN [ok |-> FALSE, blocks |-> <<>>]
       ELSE blocks_since(bs, CHOOSE b \in get_block(bs, current.prev_hash) : TRUE, height,
                         Append(res, current))
  ELSE [ok |-> TRUE, blocks |-> res]

\* block::get_blocks_since_height
get_blocks_since_height(bs, tip, height) ==
  IF get_last_block(bs, tip) = {} THEN [ok |-> FALSE, blocks |-> <<>>]
  ELSE blocks_since(bs, CHOOSE b \in get_last_block(bs, tip) : TRUE, height, <<>>)

\* chain::clear_blockchain: the keys "orphan", "mempool" and "lh" are deleted;
\* delete_all_blocks and delete_all_utxos delete the empty range ["", "")
clear_blockchain(st) == [st EXCEPT !.orphans = {}, !.mempool = {}, !.lh = NoHash]

\* publish_chainsync_req: the message published
publish_chainsync_req(st, me) ==
  [NoMsg EXCEPT !.topic = to_ident_topic(CHAIN_SYNC_REQ_TOPIC, me), !.source = me,
                !.height = get_chain_height(st.blocks, st.lh)]

\* a handler that lists the whole chain whatever height was asked for
handle_chainsync_req_all(st, m, me) ==
  LET r == get_blocks_since_height(st.blocks, st.lh, 0)
  IN IF m.source = "" \/ ~r.ok THEN <<>>
     ELSE <<[NoMsg EXCEPT !.topic = to_ident_topic(CHAIN_SYNC_RES_TOPIC, m.source),
                          !.source = me,
                          !.hashes = [i \in 1..Len(r.blocks) |-> r.blocks[i].hash]]>>

\* handle_chainsync_req: the messages published
handle_chainsync_req(st, m, me) ==
  LET r == get_blocks_since_height(st.blocks, st.lh, m.height)
  IN IF m.source = "" \/ ~r.ok THEN <<>>
     ELSE <<[NoMsg EXCEPT !.topic = to_ident_topic(CHAIN_SYNC_RES_TOPIC, m.source),
                          !.source = me,
                          !.hashes = [i \in 1..Len(r.blocks) |-> r.blocks[i].hash]]>>

\* a handler that requests only the listed blocks it does not store
handle_chainsync_res_unknown(st, m, me) ==
  IF m.source = "" THEN <<>>
  ELSE SelectSeq([i \in 1..Len(m.hashes) |->
                    [NoMsg EXCEPT !.topic = to_ident_topic(INV_REQ_TOPIC, m.source),
                                  !.source = me,
                                  !.inv = [kind |-> "block", id |-> m.hashes[i]]]],
                 LAMBDA r : get_block(st.blocks, r.inv.id) = {})

\* handle_chainsync_res: the messages published
handle_chainsync_res(st, m, me) ==
  IF m.source = "" THEN <<>>
  ELSE [i \in 1..Len(m.hashes) |->
          [NoMsg EXCEPT !.topic = to_ident_topic(INV_REQ_TOPIC, m.source), !.source = me,
                        !.inv = [kind |-> "block", id |-> m.hashes[i]]]]

\* handle_new_inventory: the messages published
handle_new_inventory(st, m, me) ==
  LET req == <<[NoMsg EXCEPT !.topic = to_ident_topic(INV_REQ_TOPIC, m.source),
                             !.source = me, !.inv = m.inv]>>
  IN IF m.source = "" THEN <<>>
     ELSE IF m.inv.kind = "tx"
     THEN IF m.inv.id \notin {x.id : x \in st.mempool} /\ ~utxo_set_contains_tx(st.utxo, m.inv.id)
          THEN req ELSE <<>>
     ELSE IF get_block(st.blocks, m.inv.id) = {} THEN req ELSE <<>>

\* handle_inventory_req: the messages published
handle_inventory_req(st, m, me) ==
  LET res == [NoMsg EXCEPT !.topic = to_ident_topic(INV_RES_TOPIC, m.source), !.source = me,
                           !.inv = m.inv]
      found_tx == {y \in st.mempool : y.id = m.inv.id}
      found_block == get_block(st.blocks, m.inv.id)
  IN IF m.source = "" THEN <<>>
     ELSE IF m.inv.kind = "tx"
     THEN IF found_tx = {} THEN <<>>
          ELSE <<[res EXCEPT !.tx = CHOOSE y \in found_tx : TRUE]>>
     ELSE IF found_block = {} THEN <<>>
          ELSE <<[res EXCEPT !.block = CHOOSE b \in found_block : TRUE]>>

\* the event loop's match on the topic of a gossipsub message: the handler
\* it calls, "ignore", or "exit" when it returns Err out of start_p2p_network
route(topic, me) ==
  IF Len(topic) >= 2 /\ topic[1] = "direct"
  THEN IF Len(topic) < 3 THEN "exit"
       ELSE IF topic[2] \notin ValidPeerIds THEN "exit"
       ELSE IF topic[2] = me /\ topic[3] \in {INV_REQ_TOPIC, INV_RES_TOPIC, CHAIN_SYNC_RES_TOPIC}
       THEN topic[3] ELSE "ignore"
  ELSE IF Len(topic) = 1 /\ topic[1] \in {NEW_INV_TOPIC, CHAIN_SYNC_REQ_TOPIC}
  THEN topic[1] ELSE "ignore"

\* the messages in flight towards node: the ones published by the other node
Pending(node) == {m \in net.msgs : m.source # node}

\* the messages gossipsub may hand to node next
Inbox(node) ==
  IF net.fifo THEN {m \in Pending(node) : \A o \in Pending(node) : m.seq <= o.seq}
  ELSE Pending(node)

\* publish: the messages of out in flight; where the order matters they are
\* queued behind the ones of the same sender
publish(nt, node, out) ==
  IF nt.fifo
  THEN LET queued == Cardinality({m \in nt.msgs : m.source = node})
       IN [nt EXCEPT !.msgs = @ \cup {[out[i] EXCEPT !.seq = queued + i] : i \in 1..Len(out)}]
  ELSE [nt EXCEPT !.msgs = @ \cup Range(out)]

\* the message m leaves the network: the ones queued behind it move up
take(nt, m) ==
  IF nt.fifo
  THEN [nt EXCEPT !.msgs = {IF o.source = m.source /\ o.seq > m.seq
                            THEN [o EXCEPT !.seq = @ - 1] ELSE o : o \in nt.msgs \ {m}}]
  ELSE [nt EXCEPT !.msgs = @ \ {m}]

\* what a step of the event loop leaves in the history
NetOp(op, m, out) ==
  [op |-> op, block |-> Genesis, tx |-> cbG, verified |-> FALSE, ret |-> "Ok", events |-> {},
   msg |-> m, out |-> Range(out)]

Frame == <<is_locked, MINING_LOCK, p2p, rest, miner, mined, scen>>

\* gossipsub::Event::Subscribed for chain_sync_req: publish_chainsync_req
Subscribed ==
  /\ AllIdle /\ net.up /\ ~net.subscribed
  /\ LET st == IF get_last_block(blocks, lh) = {} THEN clear_blockchain(State) ELSE State
         m == publish_chainsync_req(st, Me)
     IN /\ SetChain(st)
        /\ net' = publish([net EXCEPT !.subscribed = TRUE], Me, <<m>>)
        /\ last' = NetOp("subscribed", NoMsg, <<m>>)
  /\ UNCHANGED <<MINING_LOCK, p2p, rest, miner, mined, scen>>

\* a handler of the event loop that only publishes
Publishes(m, topic, out) ==
  /\ AllIdle /\ net.up
  /\ m \in Inbox(Me) /\ route(m.topic, Me) = topic
  /\ net' = publish(take(net, m), Me, out)
  /\ last' = NetOp(topic, m, out)
  /\ UNCHANGED <<blocks, lh, utxo, mempool, orphans>>
  /\ UNCHANGED Frame

OnChainSyncReq(m) == Publishes(m, CHAIN_SYNC_REQ_TOPIC, handle_chainsync_req(State, m, Me))
OnChainSyncRes(m) == Publishes(m, CHAIN_SYNC_RES_TOPIC, handle_chainsync_res(State, m, Me))
OnNewInv(m) == Publishes(m, NEW_INV_TOPIC, handle_new_inventory(State, m, Me))
OnInvReq(m) == Publishes(m, INV_REQ_TOPIC, handle_inventory_req(State, m, Me))

\* handle_inventory_res(Inventory::Block): commit_block
OnInvResBlock(m) ==
  /\ AllIdle /\ net.up
  /\ m \in Inbox(Me) /\ route(m.topic, Me) = INV_RES_TOPIC /\ m.inv.kind = "block"
  /\ \E s \in commit_block(State, m.block) :
       /\ SetChain(s)
       /\ last' = [op |-> "commit_block", block |-> m.block, tx |-> cbG,
                   verified |-> block_verify(m.block, utxo), ret |-> s.ret,
                   events |-> s.events]
  /\ net' = take(net, m)
  /\ UNCHANGED <<MINING_LOCK, p2p, rest, miner, mined, scen>>

\* handle_inventory_res(Inventory::Transaction): verify, double-spend check, admit
OnInvResTx(m) ==
  /\ AllIdle /\ net.up
  /\ m \in Inbox(Me) /\ route(m.topic, Me) = INV_RES_TOPIC /\ m.inv.kind = "tx"
  /\ LET ok == tx_verify(m.tx, utxo) /\ no_double_spend(mempool, m.tx)
     IN /\ mempool' = IF ok THEN put_mempool(mempool, m.tx) ELSE mempool
        /\ last' = [NoOp EXCEPT !.op = "recv_tx", !.tx = m.tx,
                                !.verified = tx_verify(m.tx, utxo),
                                !.ret = IF ok THEN "Ok" ELSE "Err"]
  /\ net' = take(net, m)
  /\ UNCHANGED <<blocks, lh, utxo, orphans>>
  /\ UNCHANGED Frame

\* the peer's Subscribed event: it publishes chain_sync_req with a height
PeerSubscribed(height) ==
  /\ ~net.peer_subscribed
  /\ net' = publish([net EXCEPT !.peer_subscribed = TRUE], Peer,
                     <<[NoMsg EXCEPT !.topic = <<CHAIN_SYNC_REQ_TOPIC>>,
                                     !.source = Peer, !.height = height]>>)
  /\ UNCHANGED <<blocks, lh, utxo, mempool, orphans, last>>
  /\ UNCHANGED Frame

\* the peer's event loop on a message from this node: the same handlers on
\* the peer's store
peer_handles(m) ==
  LET r == route(m.topic, Peer)
  IN IF r = CHAIN_SYNC_REQ_TOPIC THEN handle_chainsync_req(PeerState, m, Peer)
     ELSE IF r = CHAIN_SYNC_RES_TOPIC THEN handle_chainsync_res(PeerState, m, Peer)
     ELSE IF r = INV_REQ_TOPIC THEN handle_inventory_req(PeerState, m, Peer)
     ELSE IF r = NEW_INV_TOPIC THEN handle_new_inventory(PeerState, m, Peer)
     ELSE <<>>

PeerRecv(m) ==
  /\ m \in Inbox(Peer)
  /\ net' = publish(take(net, m), Peer, peer_handles(m))
  /\ UNCHANGED <<blocks, lh, utxo, mempool, orphans, last>>
  /\ UNCHANGED Frame

\* a node that starts with an empty store next to the peer
InitEmpty ==
  /\ blocks = {} /\ lh = NoHash /\ utxo = {} /\ mempool = {} /\ orphans = {}
  /\ is_locked = FALSE /\ MINING_LOCK = FALSE
  /\ p2p = Idle /\ rest = Idle /\ miner = Idle /\ mined = 0
  /\ last = NoOp /\ scen = "none" /\ net = NetIdle

NextPair ==
  \/ Subscribed
  \/ PeerSubscribed(get_chain_height(PeerState.blocks, PeerState.lh))
  \/ \E m \in net.msgs : OnChainSyncReq(m)
  \/ \E m \in net.msgs : OnChainSyncRes(m)
  \/ \E m \in net.msgs : OnInvResBlock(m)
  \/ \E m \in net.msgs : PeerRecv(m)

SpecPair == InitEmpty /\ [][NextPair]_vars

\* the same two nodes on a transport that keeps no order
InitEmptyAny ==
  /\ blocks = {} /\ lh = NoHash /\ utxo = {} /\ mempool = {} /\ orphans = {}
  /\ is_locked = FALSE /\ MINING_LOCK = FALSE
  /\ p2p = Idle /\ rest = Idle /\ miner = Idle /\ mined = 0
  /\ last = NoOp /\ scen = "none" /\ net = [NetIdle EXCEPT !.fifo = FALSE]

SpecPairAny == InitEmptyAny /\ [][NextPair]_vars

\* every enabled step of either event loop is eventually taken
FairPair == SpecPair /\ WF_vars(NextPair)

Quiet == net.subscribed /\ net.peer_subscribed /\ net.msgs = {}
Synced == lh = PeerState.lh /\ utxo = PeerState.utxo

\* with delivery in publication order the node ends with the peer's tip and
\* UTXO set
ConvergesInOrder == <>[]Synced

\* C23: a node that started with an empty store next to a peer holding the
\* valid chain G, A1, A2, E3, E4 has, once every published message has been
\* delivered and handled, the peer's tip and the peer's UTXO set
SyncedWhenQuiet == Quiet => Synced

\* ------------------------------------------ announcements and bad topics

MaxAnnounce == 1
\* the heights a peer may put in its chain_sync_req
PeerHeights == {0, 2, 5}
\* what the peer announces: a transaction of its mempool, blocks of its chain
PeerInventory == {[kind |-> "tx", id |-> t9.id], [kind |-> "block", id |-> E4.hash]}
\* topics outside get_all_topics: "direct:N", "direct:zz:inv_req" and
\* "direct:N:ping" start with "direct:", "ping" does not
ForeignTopics ==
  {<<"direct", Me>>, <<"direct", "zz", INV_REQ_TOPIC>>, <<"direct", Me, "ping">>, <<"ping">>}

\* publish_new_inventory on the peer
PeerAnnounce(inv) ==
  /\ net.announced < MaxAnnounce
  /\ net' = publish([net EXCEPT !.announced = @ + 1], Peer,
                     <<[NoMsg EXCEPT !.topic = to_ident_topic(NEW_INV_TOPIC, Peer),
                                     !.source = Peer, !.inv = inv]>>)
  /\ UNCHANGED <<blocks, lh, utxo, mempool, orphans, last>>
  /\ UNCHANGED Frame

\* gossipsub::Event::Message on a topic no handler is matched for: the
\* message is skipped, or start_p2p_network returns Err and the loop ends
OnForeign(topic) ==
  /\ AllIdle /\ net.up
  /\ route(topic, Me) \in {"exit", "ignore"}
  /\ net' = [net EXCEPT !.up = route(topic, Me) # "exit"]
  /\ last' = NetOp(route(topic, Me), [NoMsg EXCEPT !.topic = topic, !.source = Peer], <<>>)
  /\ UNCHANGED <<blocks, lh, utxo, mempool, orphans>>
  /\ UNCHANGED Frame

NextGossip ==
  \/ Subscribed
  \/ \E h \in PeerHeights : PeerSubscribed(h)
  \/ \E inv \in PeerInventory : PeerAnnounce(inv)
  \/ \E topic \in ForeignTopics : OnForeign(topic)
  \/ \E m \in net.msgs : OnChainSyncReq(m)
  \/ \E m \in net.msgs : OnChainSyncRes(m)
  \/ \E m \in net.msgs : OnNewInv(m)
  \/ \E m \in net.msgs : OnInvReq(m)
  \/ \E m \in net.msgs : OnInvResBlock(m)
  \/ \E m \in net.msgs : OnInvResTx(m)
  \/ \E m \in net.msgs : PeerRecv(m)

SpecGossip == Init /\ [][NextGossip]_vars

\* an item the node holds: a transaction of the mempool or one that produced
\* an entry of the UTXO set, a block of the block store
Known(inv) ==
  IF inv.kind = "tx"
  THEN inv.id \in {x.id : x \in mempool} \/ inv.id \in {e.tx_id : e \in utxo}
  ELSE inv.id \in {b.hash : b \in blocks}

InvReqs(out) == {r \in out : r.topic = <<"direct", Peer, INV_REQ_TOPIC>>}

\* C21: every inv_req the node publishes while handling a new_inv or a
\* chain_sync_res names an item that is unknown locally: a transaction id that
\* is neither in the mempool nor a producer key of the UTXO set, a block hash
\* that is not in the block store
RequestsOnlyUnknown ==
  [][(last' # last /\ last'.op \in {NEW_INV_TOPIC, CHAIN_SYNC_RES_TOPIC})
       => \A r \in InvReqs(last'.out) : ~Known(r.inv)]_vars

\* the new_inv half of C21 alone
AnnouncedOnlyUnknown ==
  [][(last' # last /\ last'.op = NEW_INV_TOPIC)
       => \A r \in InvReqs(last'.out) : ~Known(r.inv)]_vars

\* the main chain: the blocks from hash h along prev_hash, tip first
RECURSIVE MainChainFrom(_, _)
MainChainFrom(bs, h) ==
  IF \A b \in bs : b.hash # h THEN <<>>
  ELSE LET b == CHOOSE x \in bs : x.hash = h
       IN IF b.prev_hash = ZeroHash THEN <<b>> ELSE <<b>> \o MainChainFrom(bs, b.prev_hash)

\* the main chain runs down to a genesis block
Linked ==
  LET c == MainChainFrom(blocks, lh) IN Len(c) > 0 /\ c[Len(c)].prev_hash = ZeroHash

\* the hashes of the main-chain blocks above height h, all of them when h = 0
HashesAbove(h) ==
  LET c == SelectSeq(MainChainFrom(blocks, lh), LAMBDA b : h = 0 \/ b.height > h)
  IN [i \in 1..Len(c) |-> c[i].hash]

\* C22: handling chain_sync_req(h), a node whose main chain runs down to
\* genesis publishes one chain_sync_res, directed at the requester, that lists
\* the hashes of its main-chain blocks from the tip down to, but not including,
\* the block at height h, tip first; with h = 0 the list runs down to genesis
ChainSyncReply ==
  [][(last' # last /\ last'.op = CHAIN_SYNC_REQ_TOPIC /\ Linked)
       => last'.out = {[NoMsg EXCEPT
                          !.topic = <<"direct", last'.msg.source, CHAIN_SYNC_RES_TOPIC>>,
                          !.source = Me,
                          !.hashes = HashesAbove(last'.msg.height)]}]_vars

\* the node, at height 4, has answered chain_sync_req(2) with the two hashes
\* above height 2
PartialReply ==
  /\ last.op = CHAIN_SYNC_REQ_TOPIC /\ last.msg.height = 2
  /\ \E r \in last.out : r.hashes = <<E4.hash, E3.hash>>

\* what the event loop records when it has taken a message or an event
NetOps ==
  {"subscribed", "exit", "ignore", NEW_INV_TOPIC, INV_REQ_TOPIC, INV_RES_TOPIC,
   CHAIN_SYNC_REQ_TOPIC, CHAIN_SYNC_RES_TOPIC}

\* a direct topic with fewer than three parts or with a target that is no peer id
InvalidDirect(topic) ==
  /\ Len(topic) >= 2 /\ topic[1] = "direct"
  /\ (Len(topic) < 3 \/ topic[2] \notin ValidPeerIds)

\* C24: a message on an invalidly formatted direct topic is dropped: nothing
\* is published, the store does not change and the event loop keeps running
MalformedDropped ==
  [][(last' # last /\ last'.op \in NetOps /\ InvalidDirect(last'.msg.topic))
       => /\ net'.up
          /\ last'.out = {}
          /\ UNCHANGED <<blocks, lh, utxo, mempool, orphans>>]_vars

\* the part of C24 that holds: no handler runs and the store does not change
MalformedNoEffect ==
  [][(last' # last /\ last'.op \in NetOps /\ InvalidDirect(last'.msg.topic))
       => /\ last'.out = {}
          /\ UNCHANGED <<blocks, lh, utxo, mempool, orphans>>]_vars

\* ------------------------------------------------- the clearblockchain command

AdminBlocks == {A1, A2, B2}
AdminTxs == {t1, t2}

\* cli::handle_clear_blockchain: clear_blockchain on the node's database
ClearBlockchain ==
  /\ AllIdle
  /\ SetChain(clear_blockchain(State))
  /\ last' = [NoOp EXCEPT !.op = "clear_blockchain"]
  /\ scen' = "none"
  /\ UNCHANGED <<MINING_LOCK, p2p, rest, miner, mined>>
  /\ UNCHANGED net

NextAdmin ==
  \/ \E block \in AdminBlocks : RecvBlock(block)
  \/ \E tx \in AdminTxs : RecvTx(tx)
  \/ ClearBlockchain

SpecAdmin == Init /\ [][NextAdmin]_vars

\* C31: when clear_blockchain has returned, the block store, the UTXO set, the
\* orphan pool and the mempool are empty, no tip hash is stored and the stored
\* node id is the one from before
ClearedEverything ==
  last.op = "clear_blockchain"
    => /\ blocks = {} /\ utxo = {} /\ orphans = {} /\ mempool = {}
       /\ lh = NoHash
       /\ net.node_id = NetIdle.node_id

\* the part of C31 that holds: the three single keys are gone, the node id stays
ClearedKeys ==
  last.op = "clear_blockchain"
    => /\ orphans = {} /\ mempool = {} /\ lh = NoHash
       /\ net.node_id = NetIdle.node_id

\* C32: a rollback of main-chain blocks does not fail: the coinbase of a
\* rolled-back block, whose input names no transaction, is never looked up, so
\* no adoption attempt ends in its rollback stage
RollbackSucceeds ==
  last.op = "commit_block"
    => \A e \in last.events : ~(e.stage = "rollback" /\ e.res # "Ok")

\* two blocks on A1 from a peer: Q1 carries height 0, and the transaction of
\* P2 spends the output of the transaction of Q1
t10 == MkTx("t10", <<TxIn("t3", 0, "pkB", TRUE)>>, <<TxOut(100, "C")>>)
Q1 == MkBlock("Q1", "A1", 0, <<coinbase_tx("cbQ1", "C"), t3>>, "Q1")
P2 == MkBlock("P2", "A1", 2, <<coinbase_tx("cbP2", "C"), t10>>, "P2")
\* a block on G whose transaction spends the 100 of cbG/0 and pays out 1000
t11 == MkTx("t11", <<TxIn("cbG", 0, "pkA", TRUE)>>, <<TxOut(1000, "B")>>)
I1 == MkBlock("I1", "G", 1, <<coinbase_tx("cbI1", "C"), t11>>, "I1")
DrainBlocks == {A1, A2, Q1, P2, B1, I1}

NextDrain ==
  \/ \E block \in DrainBlocks : RecvBlock(block)
  \/ \E tx \in PeerTxs : RecvTx(tx)

SpecDrain == Init /\ [][NextDrain]_vars

\* C34: when commit_block returns Ok after applying a verified block, no
\* orphan on the tip passes full verification against the UTXO set, and every
\* orphan that the call stored as a block has left the orphan pool
DrainLeavesNone ==
  [][(last' # last /\ last'.op = "commit_block" /\ last'.verified /\ last'.ret = "Ok")
       => /\ \A o \in orphans' : ~(o.prev_hash = lh' /\ block_verify(o, utxo'))
          /\ \A o \in orphans : o \in blocks' \ blocks => o \notin orphans']_vars

\* the first half of C34 alone
NoVerifiableOrphanOnTip ==
  [][(last' # last /\ last'.op = "commit_block" /\ last'.verified /\ last'.ret = "Ok")
       => \A o \in orphans' : ~(o.prev_hash = lh' /\ block_verify(o, utxo'))]_vars

\* C35: when a commit_block that ran check_orphans_for_longest_chain has
\* returned, whatever became of the adoptions it attempted, the chain lock is
\* released
LockReleased ==
  (last.op = "commit_block" /\ last.verified) => is_locked = FALSE

\* an adoption has failed while creating its snapshot, that is after
\* lock_chain and before any unlock_chain of adopt_orphan_chain
AdoptionFailedLocked ==
  /\ last.op = "commit_block" /\ last.verified
  /\ \E e \in last.events : e.stage = "snapshot" /\ e.res = "Err"

\* C36: the values held in the UTXO set add up to at most COINBASE_REWARD
\* times the number of main-chain blocks
SupplyBounded == ~covers(utxo, COINBASE_REWARD * Cardinality(MainChain) + 1)

\* ------------------------------------------ blocks a peer can craft at will

\* a coinbase with no outputs: is_coinbase looks at the inputs only
cbN == MkTx("cbN", <<TxIn(ZeroHash, U32_MAX, "pkE", TRUE)>>, <<>>)
\* a transaction whose input names an output index the referenced
\* transaction does not have
t12 == MkTx("t12", <<TxIn("cbG", 5, "pkA", TRUE)>>, <<TxOut(10, "B")>>)
\* no transactions at all
E0 == MkBlock("E0", "G", 1, <<>>, "E0")
\* the first transaction is the coinbase without outputs
N1 == MkBlock("N1", "G", 1, <<cbN>>, "N1")
\* the same behind a transaction that does not verify
N2 == MkBlock("N2", "G", 1, <<cbN, t12>>, "N2")
\* a well-formed coinbase and the transaction with the missing output index
W1 == MkBlock("W1", "G", 1, <<coinbase_tx("cbW1", "C"), t12>>, "W1")
CraftedBlocks == {E0, N1, N2, W1, A1, A2, B1}

\* Block::verify indexes coinbase.outputs[0] once every transaction verified
\* and the first one is a coinbase: the index is out of bounds when that
\* coinbase has no outputs
verify_panics(b, u) ==
  /\ Len(b.txs) > 0
  /\ \A k \in 1..Len(b.txs) : tx_verify(b.txs[k], u)
  /\ is_coinbase(b.txs[1])
  /\ Len(b.txs[1].outputs) = 0

\* Block::verify_orphan indexes coinbase.outputs[0] the same way, without
\* verifying the transactions first
verify_orphan_panics(b) ==
  /\ Len(b.txs) > 0
  /\ is_coinbase(b.txs[1])
  /\ Len(b.txs[1].outputs) = 0

\* commit_block calls verify and, when it answers false, verify_orphan
commit_block_panics(b, u) ==
  \/ verify_panics(b, u)
  \/ /\ ~(Len(b.txs) > 0 /\ \A k \in 1..Len(b.txs) : tx_verify(b.txs[k], u))
     /\ verify_orphan_panics(b)

\* handle_inventory_res, block branch, for any block a peer sends: a panic
\* inside commit_block unwinds the task that runs the event loop
OnCraftedBlock(block) ==
  /\ net.up
  /\ IF commit_block_panics(block, utxo)
     THEN /\ AllIdle
          /\ net' = [net EXCEPT !.up = FALSE]
          /\ last' = [op |-> "commit_block", block |-> block, tx |-> cbG,
                      verified |-> FALSE, ret |-> "Panic", events |-> {}]
          /\ scen' = "none"
          /\ UNCHANGED <<blocks, lh, utxo, mempool, orphans, is_locked, MINING_LOCK,
                         p2p, rest, miner, mined>>
     ELSE RecvBlock(block)

\* handle_inventory_res, transaction branch, while the event loop runs
OnCraftedTx(tx) == net.up /\ RecvTx(tx)

NextCrafted ==
  \/ \E block \in CraftedBlocks : OnCraftedBlock(block)
  \/ \E tx \in PeerTxs : OnCraftedTx(tx)

SpecCrafted == Init /\ [][NextCrafted]_vars

\* C37: handling a received block never panics and never stops the event
\* loop: it ends in Ok or Err and the loop keeps running
NoPanicOnBlock ==
  /\ net.up
  /\ last.op = "commit_block" => last.ret \in {"Ok", "Err"}

\* a malformed block that is refused without a panic: the empty block and
\* the block spending a missing output index
MalformedRefused ==
  /\ last.op = "commit_block"
  /\ last.block \in {E0, W1}
  /\ last.ret \in {"Ok", "Err"}
  /\ net.up

\* ------------------------------------- admissions while a block is mined

\* the outputs the transactions of a block spend
BlockSpends(b) == UNION {InputKeys(b.txs[k]) : k \in 1..Len(b.txs)}

\* the transactions in the mempool that the block being mined neither
\* contains nor conflicts with: Block::new took the whole mempool, so each
\* of them was admitted after the block's snapshot
AdmittedSince(b) ==
  {tx \in mempool : tx \notin Range(b.txs) /\ InputKeys(tx) \cap BlockSpends(b) = {}}

MaxJoins == 1

\* gossipsub::Event::Subscribed for chain_sync_req from a further peer
\* (peer_id is ignored): publish_chainsync_req once more
SubscribedAgain ==
  /\ AllIdle /\ net.up /\ net.subscribed /\ net.joins < MaxJoins
  /\ LET st == IF get_last_block(blocks, lh) = {} THEN clear_blockchain(State) ELSE State
         m == publish_chainsync_req(st, Me)
     IN /\ SetChain(st)
        /\ net' = publish([net EXCEPT !.joins = @ + 1], Me, <<m>>)
        /\ last' = NetOp("subscribed", NoMsg, <<m>>)
  /\ UNCHANGED <<MINING_LOCK, p2p, rest, miner, mined, scen>>

NextJoin ==
  \/ Subscribed
  \/ SubscribedAgain
  \/ PeerSubscribed(get_chain_height(PeerState.blocks, PeerState.lh))
  \/ \E m \in net.msgs : OnChainSyncReq(m)
  \/ \E m \in net.msgs : OnChainSyncRes(m)
  \/ \E m \in net.msgs : OnInvResBlock(m)
  \/ \E m \in net.msgs : PeerRecv(m)

SpecJoin == InitEmpty /\ [][NextJoin]_vars

\* the step that handles a Subscribed event
PublishesChainSyncReq == net'.subscribed # net.subscribed \/ net'.joins # net.joins

\* C39: publishing a chain-sync request leaves the block store, the UTXO
\* set, the mempool, the orphan pool and the tip as they were, with or
\* without a chain
PublishKeepsChain ==
  [][PublishesChainSyncReq => UNCHANGED <<blocks, lh, utxo, mempool, orphans>>]_vars

\* the request was published by a node that has a chain
PublishedWithChain ==
  /\ last.op = "subscribed" /\ net.joins > 0
  /\ get_last_block(blocks, lh) # {}

\* ------------------------------------ a main-chain block committed again

\* the step is a commit_block of a block that was on the main chain
ReCommit ==
  /\ last'.op = "commit_block"
  /\ last'.block \in MainChain
  /\ (last' # last \/ <<blocks, lh, utxo, mempool, orphans>>' # <<blocks, lh, utxo, mempool, orphans>>)

\* no block is both in the block store and in the orphan pool
StoredNotOrphan == Hashes(blocks) \cap Hashes(orphans) = {}

\* C40: committing a block that is already on the main chain leaves the
\* block store, the UTXO set, the mempool, the orphan pool and the tip as
\* they were, and no block is ever both in the block store and in the
\* orphan pool
ReCommitIsNoOp ==
  /\ []StoredNotOrphan
  /\ [][ReCommit => UNCHANGED <<blocks, lh, utxo, mempool, orphans>>]_vars

====
